---- MODULE Spec2Model ----
(***************************************************************************)
(* Model of the BGG guitar-controller firmware: the temp-file+rename       *)
(* writers (serial_handler.atomic_write_json, boot.merge_config_file),     *)
(* the boot-time config merge and the serial file-transfer session         *)
(* (serial_handler.handle_serial).                                         *)
(*                                                                         *)
(* Text is a sequence of tokens.  A JSON object is the token "{", one      *)
(* token per top-level entry and the token "}"; any other JSON value is    *)
(* one "val" token; a line terminator inside a text is the token "nl".     *)
(* JSON values are records: Scalar(n) or Dict(f), f a function from        *)
(* member names to values.                                                 *)
(***************************************************************************)
EXTENDS Integers, Sequences, FiniteSets, TLC

VARIABLES
    fs,          \* the filesystem: path -> [exists, text]
    w_pc,        \* position of the temp-file+rename writer
    w_kind,      \* "serial" (atomic_write_json), "boot" (merge_config_file step 3)
                 \* or "pin" (save_detected_pin)
    w_path,      \* the writer's target path
    w_text,      \* the serialized text the writer is writing
    w_pre,       \* the target file as it was when the write started
    w_renamed,   \* TRUE once the final rename has completed
    w_failed,    \* the stage whose failure sent the writer to its except block
    w_result,    \* "none" while running, then "ok" or "fail"
    m_target,    \* the target path of the staged config file
    m_count,     \* calls of merge_config_file made so far
    m_existing,  \* existing_config as the last call loaded it
    m_update,    \* update_config as the last call loaded it
    m_ret,       \* what the last call returned: "none", "true" or "false"
    m_prev_ret,  \* what the call before it returned
    s_mode,      \* handle_serial's mode: "idle" (None), "write", "merge_user"
    s_filename,  \* the transfer's target path
    s_file_lines,    \* the payload lines buffered so far
    s_user_presets,  \* the in-memory user_presets
    s_line,      \* the line handle_serial dispatched last
    s_out,       \* the responses written to serial for that line
    s_open,      \* file handles opened for streaming and not closed since
    s_fx,        \* the handle, hardware and reset calls made for that line, in
                 \* order, each with the number of responses written before it
    s_leds,      \* the LED strip: pixel index -> colour
    s_indicator, \* the serial indicator: _serial_indicator_active, _saved_led_states
    b_pc,        \* boot.py's position in check_boot_loop / process_firmware_updates
    b_flag,      \* /updating.flag exists
    b_retry,     \* the number in /update_retry_count.txt, 0 when the file is absent
    b_dir,       \* /updates exists
    b_staged,    \* the names of the files in /updates
    b_target,    \* what each root-level target file holds: "old", "partial", "new", "lost"
    b_files,     \* update_files, the listing taken by this boot
    b_i,         \* index of the file the loop is at
    b_count,     \* retry_count of this boot
    b_success,   \* success_count of this boot
    b_failed,    \* failed_files of this boot
    b_recovered, \* check_boot_loop returned True on this boot
    b_losses,    \* power losses so far
    r_waiting,   \* the bytes received and not yet read (serial.in_waiting)
    r_buffer,    \* handle_serial's buffer: the characters of the unfinished line
    r_pc,        \* "loop": the main loop is outside handle_serial; "call": inside
    r_iter,      \* iterations of `for _ in range(max_bytes)` made by this call
    r_taken,     \* bytes this call has read from serial
    r_lines,     \* the lines dispatched so far
    r_sent,      \* bytes the host has sent so far
    l_logs,      \* the numbers n of the files /update_log_<n:03d>.txt in the root
    l_boots,     \* boots that have run the update processor so far
    h_stream,    \* history: every byte the host has sent, in order
    h_transfer   \* history: the transfer the host has begun and not yet ended with
                 \* END, with the target file and the strum LEDs as they were
                 \* when its command was handled

store_vars == <<w_pc, w_kind, w_path, w_text, w_pre, w_renamed, w_failed, w_result>>
merge_vars == <<m_target, m_count, m_existing, m_update, m_ret, m_prev_ret>>
boot_vars == <<b_pc, b_flag, b_retry, b_dir, b_staged, b_target, b_files, b_i,
               b_count, b_success, b_failed, b_recovered, b_losses>>
receive_vars == <<r_waiting, r_buffer, r_pc, r_iter, r_taken, r_lines, r_sent>>
hist_vars == <<h_stream, h_transfer>>
log_vars == <<l_logs, l_boots>>
serial_vars == <<s_mode, s_filename, s_file_lines, s_user_presets, s_line, s_out, s_open,
                 s_fx, s_leds, s_indicator>>

(***************************************************************************)
(* Bounds of the model.                                                    *)
(***************************************************************************)
MaxVal == 2      \* top-level scalar settings take the values 1..MaxVal
MaxMerges == 2   \* merge_config_file runs at most this often on one staged file
MaxLines == 2    \* payload lines buffered in one transfer
MaxHandles == 1  \* file handles the filesystem lets be open at once
MaxLosses == 2   \* power losses during boot
MaxBoots == 1001 \* boots that run the update processor
MaxSent == 10    \* bytes the host sends to the byte loop

(***************************************************************************)
(* Strings as character sequences (TLC cannot take a string apart).        *)
(***************************************************************************)
Chars(s) ==
    CASE s = "version"            -> <<"v","e","r","s","i","o","n">>
      [] s = "presets"            -> <<"p","r","e","s","e","t","s">>
      [] s = "led_color"          -> <<"l","e","d","_","c","o","l","o","r">>
      [] s = "User A"             -> <<"U","s","e","r"," ","A">>
      [] s = "Preset B"           -> <<"P","r","e","s","e","t"," ","B">>
      [] s = "username"           -> <<"u","s","e","r","n","a","m","e">>
      [] s = "/config.json"       -> <<"/","c","o","n","f","i","g",".","j","s","o","n">>
      [] s = "/presets.json"      -> <<"/","p","r","e","s","e","t","s",".","j","s","o","n">>
      [] s = "/user_presets.json" -> <<"/","u","s","e","r","_","p","r","e","s","e","t","s",".","j","s","o","n">>
      [] s = "user_presets.json"  -> <<"u","s","e","r","_","p","r","e","s","e","t","s",".","j","s","o","n">>
      [] s = "presets.json"       -> <<"p","r","e","s","e","t","s",".","j","s","o","n">>
      [] s = "/code.py"           -> <<"/","c","o","d","e",".","p","y">>
      [] s = "config.json"        -> <<"c","o","n","f","i","g",".","j","s","o","n">>
      [] s = "code.py"            -> <<"c","o","d","e",".","p","y">>
      [] s = "utils.py"           -> <<"u","t","i","l","s",".","p","y">>
      [] s = "strum-up"           -> <<"s","t","r","u","m","-","u","p">>
      [] s = "strum-down"         -> <<"s","t","r","u","m","-","d","o","w","n">>
      [] s = "green-fret"         -> <<"g","r","e","e","n","-","f","r","e","t">>
      [] s = "Strum-Up"           -> <<"S","t","r","u","m","-","U","p">>
      [] s = "whammy"             -> <<"w","h","a","m","m","y">>
      [] s = "#0000FF"            -> <<"#","0","0","0","0","F","F">>
      [] s = "#00gg00"            -> <<"#","0","0","g","g","0","0">>

\* str.lower(), character by character
LowerChar(c) ==
    CASE c = "A" -> "a" [] c = "B" -> "b" [] c = "C" -> "c" [] c = "D" -> "d"
      [] c = "E" -> "e" [] c = "F" -> "f" [] c = "G" -> "g" [] c = "H" -> "h"
      [] c = "I" -> "i" [] c = "J" -> "j" [] c = "K" -> "k" [] c = "L" -> "l"
      [] c = "M" -> "m" [] c = "N" -> "n" [] c = "O" -> "o" [] c = "P" -> "p"
      [] c = "Q" -> "q" [] c = "R" -> "r" [] c = "S" -> "s" [] c = "T" -> "t"
      [] c = "U" -> "u" [] c = "V" -> "v" [] c = "W" -> "w" [] c = "X" -> "x"
      [] c = "Y" -> "y" [] c = "Z" -> "z" [] OTHER -> c

Lower(cs) == [i \in 1..Len(cs) |-> LowerChar(cs[i])]

\* str.startswith(pre)
StartsWith(cs, pre) ==
    /\ Len(cs) >= Len(pre)
    /\ SubSeq(cs, 1, Len(pre)) = pre

\* str.endswith(suf)
EndsWith(cs, suf) ==
    /\ Len(cs) >= Len(suf)
    /\ SubSeq(cs, Len(cs) - Len(suf) + 1, Len(cs)) = suf

\* sub in str
Contains(cs, sub) ==
    \E i \in 1..(Len(cs) - Len(sub) + 1) : SubSeq(cs, i, i + Len(sub) - 1) = sub

(***************************************************************************)
(* JSON values and their text.                                             *)
(***************************************************************************)
Scalar(n) == [t |-> "s", v |-> n]
Dict(f)   == [t |-> "d", m |-> f]
IsDict(x) == x.t = "d"
EmptyDict == Dict([k \in {} |-> Scalar(0)])

\* dict.get / dict membership
HasKey(d, k) == k \in DOMAIN d.m

LB == [t |-> "lb"]                       \* "{"
RB == [t |-> "rb"]                       \* "}"
NL == [t |-> "nl"]                       \* "\n"
Ent(k, x) == [t |-> "ent", k |-> k, v |-> x]   \* "key": value
Val(x) == [t |-> "val", v |-> x]         \* a JSON value that is not an object

\* the order in which a dict's entries are written out
KeyOrder == <<"version", "led_color", "presets", "User A", "Preset B", "username",
              "GREEN_FRET">>

RECURSIVE EntriesFrom(_, _)
EntriesFrom(d, i) ==
    IF i > Len(KeyOrder) THEN <<>>
    ELSE (IF HasKey(d, KeyOrder[i]) THEN <<Ent(KeyOrder[i], d.m[KeyOrder[i]])>> ELSE <<>>)
         \o EntriesFrom(d, i + 1)

\* json.dumps
Dumps(x) == IF IsDict(x) THEN <<LB>> \o EntriesFrom(x, 1) \o <<RB>> ELSE <<Val(x)>>

\* json.dump(x, f, indent=2): every entry on a line of its own, no newline
\* after the closing brace
RECURSIVE IndentEntries(_)
IndentEntries(ents) ==
    IF ents = <<>> THEN <<>> ELSE <<Head(ents), NL>> \o IndentEntries(Tail(ents))

DumpsIndent(x) ==
    IF IsDict(x) /\ EntriesFrom(x, 1) # <<>>
    THEN <<LB, NL>> \o IndentEntries(EntriesFrom(x, 1)) \o <<RB>>
    ELSE Dumps(x)

\* whitespace between JSON tokens is ignored by the parser
RECURSIVE StripNL(_)
StripNL(txt) ==
    IF txt = <<>> THEN <<>>
    ELSE (IF Head(txt) = NL THEN <<>> ELSE <<Head(txt)>>) \o StripNL(Tail(txt))

\* the dict built from a sequence of entries; a repeated key keeps the last value
RECURSIVE DictOf(_, _)
DictOf(ents, acc) ==
    IF ents = <<>> THEN acc
    ELSE LET e == Head(ents)
         IN DictOf(Tail(ents),
                   [k \in DOMAIN acc \cup {e.k} |-> IF k = e.k THEN e.v ELSE acc[k]])

\* json.loads: [ok, val]; ok = FALSE is a ValueError
Loads(txt) ==
    LET s == StripNL(txt) IN
    IF Len(s) = 1 /\ s[1].t = "val" THEN [ok |-> TRUE, val |-> s[1].v]
    ELSE IF /\ Len(s) >= 2
            /\ s[1] = LB
            /\ s[Len(s)] = RB
            /\ \A i \in 2..(Len(s) - 1) : s[i].t = "ent"
         THEN [ok |-> TRUE,
               val |-> Dict(DictOf(SubSeq(s, 2, Len(s) - 1), [k \in {} |-> Scalar(0)]))]
         ELSE [ok |-> FALSE, val |-> EmptyDict]

\* make_json_safe: None, bool, int, float and str pass through; a dict is
\* rebuilt member by member.  Every value json.loads produces is of these kinds.
RECURSIVE MakeJsonSafe(_)
MakeJsonSafe(x) ==
    IF IsDict(x) THEN Dict([k \in DOMAIN x.m |-> MakeJsonSafe(x.m[k])]) ELSE x

(***************************************************************************)
(* The filesystem.                                                         *)
(***************************************************************************)
Targets == {"/config.json", "/presets.json", "/user_presets.json"}

TmpPath(p) ==
    CASE p = "/config.json"       -> "/config.json.tmp"
      [] p = "/presets.json"      -> "/presets.json.tmp"
      [] p = "/user_presets.json" -> "/user_presets.json.tmp"

BackupPath(p) ==
    CASE p = "/config.json"       -> "/config.json.backup"
      [] p = "/presets.json"      -> "/presets.json.backup"
      [] p = "/user_presets.json" -> "/user_presets.json.backup"

UpdatePath(p) ==
    CASE p = "/config.json"       -> "/updates/config.json"
      [] p = "/presets.json"      -> "/updates/presets.json"
      [] p = "/user_presets.json" -> "/updates/user_presets.json"

Paths == Targets \cup {TmpPath(p) : p \in Targets} \cup {BackupPath(p) : p \in Targets}
                 \cup {UpdatePath(p) : p \in Targets}

Absent == [exists |-> FALSE, text |-> <<>>]
FileOf(txt) == [exists |-> TRUE, text |-> txt]

\* open(p, "w"): creates or truncates
FsOpenW(f, p) == [f EXCEPT ![p] = FileOf(<<>>)]
\* f.write(txt)
FsWrite(f, p, txt) == [f EXCEPT ![p] = FileOf(f[p].text \o txt)]
\* os.remove(p)
FsRemove(f, p) == [f EXCEPT ![p] = Absent]
\* os.rename(src, dst)
FsRename(f, src, dst) == [f EXCEPT ![dst] = f[src], ![src] = Absent]

\* the file json.load reads: the parsed value, or a failure when the file is
\* missing (OSError) or is not JSON (ValueError)
LoadFile(f, p) ==
    IF f[p].exists THEN Loads(f[p].text) ELSE [ok |-> FALSE, val |-> EmptyDict]

(***************************************************************************)
(* merge_config_file: the merge rules.                                     *)
(***************************************************************************)
MetaKeys == {"version", "firmware_version", "config_version", "last_updated"}

\* is_preset_file = 'preset' in target_path.lower()
IsPresetFile(path) == Contains(Lower(Chars(path)), <<"p","r","e","s","e","t">>)

\* mutant: a preset of the update replaces the existing preset of the same name
MergePresets_Clobber(existing_presets, update_presets) ==
    Dict([n \in DOMAIN existing_presets.m \cup DOMAIN update_presets.m |->
            IF n \in DOMAIN update_presets.m
            THEN update_presets.m[n]
            ELSE existing_presets.m[n]])

\* merged_presets = existing_presets.copy(), plus every preset of the update
\* whose name the existing map does not have
MergePresets(existing_presets, update_presets) ==
    Dict([n \in DOMAIN existing_presets.m \cup DOMAIN update_presets.m |->
            IF n \in DOMAIN existing_presets.m
            THEN existing_presets.m[n]
            ELSE update_presets.m[n]])

\* mutant: the update's value replaces an existing user setting
MergeKey_UpdateWins(existing_config, update_config, is_preset_file, key) ==
    update_config.m[key]

\* mutant: the metadata branch is missing, so existing metadata is kept
MergeKey_KeepsMeta(existing_config, update_config, is_preset_file, key) ==
    IF ~HasKey(existing_config, key)
    THEN update_config.m[key]
    ELSE existing_config.m[key]

\* mutant: the preset branch starts from an empty map instead of a copy of
\* the existing presets
MergeKey_FreshPresets(existing_config, update_config, is_preset_file, key) ==
    IF ~HasKey(existing_config, key)
    THEN update_config.m[key]
    ELSE IF key \in MetaKeys
    THEN update_config.m[key]
    ELSE IF /\ is_preset_file
            /\ key = "presets"
            /\ IsDict(update_config.m[key])
            /\ IsDict(existing_config.m[key])
    THEN Dict([n \in DOMAIN update_config.m[key].m \ DOMAIN existing_config.m[key].m |->
                 update_config.m[key].m[n]])
    ELSE existing_config.m[key]

\* the value the loop body leaves in merged_config[key], key a key of the update
MergeKey(existing_config, update_config, is_preset_file, key) ==
    IF ~HasKey(existing_config, key)
    THEN update_config.m[key]
    ELSE IF key \in MetaKeys
    THEN update_config.m[key]
    ELSE IF /\ is_preset_file
            /\ key = "presets"
            /\ IsDict(update_config.m[key])
            /\ IsDict(existing_config.m[key])
    THEN MergePresets(existing_config.m[key], update_config.m[key])
    ELSE existing_config.m[key]

\* mutant: merged_config starts empty instead of as a copy of existing_config
MergeConfig_NoCopy(existing_config, update_config, is_preset_file) ==
    Dict([k \in DOMAIN update_config.m |->
            MergeKey(existing_config, update_config, is_preset_file, k)])

\* merged_config after the loop over update_config.items()
MergeConfig(existing_config, update_config, is_preset_file) ==
    Dict([k \in DOMAIN existing_config.m \cup DOMAIN update_config.m |->
            IF HasKey(update_config, k)
            THEN MergeKey(existing_config, update_config, is_preset_file, k)
            ELSE existing_config.m[k]])

(***************************************************************************)
(* The temp-file+rename writers, one filesystem call per step, so that a   *)
(* reset can fall between any two calls.                                   *)
(***************************************************************************)
StoreTargets == {"/config.json"}
StorePaths == StoreTargets \cup {TmpPath(p) : p \in StoreTargets}

\* the documents handed to the writers
StoreDocs == {Dict([k \in {"version"} |-> Scalar(n)]) : n \in 1..MaxVal}

\* what the target holds once the write is complete: atomic_write_json ends
\* the file with a newline, merge_config_file does not
NewFile == FileOf(IF w_kind = "serial" THEN w_text \o <<NL>> ELSE w_text)

\* the LED strip after code.py's first update_leds(): every pixel shows its
\* released colour; pixels 0 and 1 are the strum LEDs
LedPixels == 0..2
ReleasedColor == <<16, 16, 16>>
LedsReleased == [i \in LedPixels |-> ReleasedColor]
IndicatorOff == [active |-> FALSE, saved |-> <<>>]

\* the device with nothing staged and boot.py not running
BootIdle ==
    /\ b_pc = "done" /\ b_flag = FALSE /\ b_retry = 0 /\ b_dir = FALSE
    /\ b_staged = {} /\ b_target = <<>> /\ b_files = <<>> /\ b_i = 0
    /\ b_count = 0 /\ b_success = 0 /\ b_failed = {} /\ b_recovered = FALSE
    /\ b_losses = 0

\* the serial session before its first line, with no user presets loaded
SessionIdle ==
    /\ s_mode = "idle" /\ s_filename = "" /\ s_file_lines = <<>>
    /\ s_user_presets = EmptyDict /\ s_line = <<>> /\ s_out = <<>>
    /\ s_open = 0
    /\ s_fx = <<>> /\ s_leds = LedsReleased /\ s_indicator = IndicatorOff

\* no transfer begun by the host
NoTransfer == [open |-> FALSE, kind |-> "none", before |-> Absent, leds |-> <<>>]

\* nothing received yet, the main loop about to call handle_serial
ReceiverIdle ==
    /\ r_waiting = <<>> /\ r_buffer = <<>> /\ r_pc = "loop"
    /\ r_iter = 0 /\ r_taken = 0 /\ r_lines = <<>> /\ r_sent = 0

WriterIdle ==
    /\ w_pc = "idle" /\ w_kind = "serial" /\ w_path = "/config.json"
    /\ w_text = <<>> /\ w_pre = Absent /\ w_renamed = FALSE
    /\ w_failed = "none" /\ w_result = "none"

\* a caller enters atomic_write_json(filepath, data), or merge_config_file
\* reaches its step 3 with test_json = json.dumps(safe_merged_config)
WStart(kind, path, data) ==
    /\ w_pc \in {"idle", "done", "reset"}
    /\ w_kind' = kind
    /\ w_path' = path
    /\ w_text' = Dumps(MakeJsonSafe(data))
    /\ w_pre' = fs[path]
    /\ w_renamed' = FALSE
    /\ w_failed' = "none"
    /\ w_result' = "none"
    /\ w_pc' = IF kind = "serial" THEN "sw_open" ELSE "bw_open"
    /\ UNCHANGED fs

\* the writer raises at `stage` and control passes to its except block
Raise(stage, cleanup) ==
    /\ w_failed' = stage
    /\ w_pc' = cleanup

\* ---- atomic_write_json ----
\* with open(temp_path, "w") as f:
SwOpen(fault) ==
    /\ w_pc = "sw_open"
    /\ IF fault
       THEN Raise("open", "sw_cleanup") /\ UNCHANGED fs
       ELSE /\ fs' = FsOpenW(fs, TmpPath(w_path))
            /\ w_pc' = "sw_write"
            /\ UNCHANGED w_failed
    /\ UNCHANGED <<w_kind, w_path, w_text, w_pre, w_renamed, w_result>>

\* f.write(json.dumps(safe_data)); a failing write leaves a prefix behind
SwWrite(fault, n) ==
    /\ w_pc = "sw_write"
    /\ IF fault
       THEN /\ n < Len(w_text)
            /\ fs' = FsWrite(fs, TmpPath(w_path), SubSeq(w_text, 1, n))
            /\ Raise("write", "sw_cleanup")
       ELSE /\ n = Len(w_text)
            /\ fs' = FsWrite(fs, TmpPath(w_path), w_text)
            /\ w_pc' = "sw_nl"
            /\ UNCHANGED w_failed
    /\ UNCHANGED <<w_kind, w_path, w_text, w_pre, w_renamed, w_result>>

\* f.write("\n") and the close at the end of the with block
SwNl(fault) ==
    /\ w_pc = "sw_nl"
    /\ IF fault
       THEN Raise("write", "sw_cleanup") /\ UNCHANGED fs
       ELSE /\ fs' = FsWrite(fs, TmpPath(w_path), <<NL>>)
            /\ w_pc' = "sw_remove"
            /\ UNCHANGED w_failed
    /\ UNCHANGED <<w_kind, w_path, w_text, w_pre, w_renamed, w_result>>

\* try: os.remove(filepath) except OSError: pass
SwRemove ==
    /\ w_pc = "sw_remove"
    /\ fs' = IF fs[w_path].exists THEN FsRemove(fs, w_path) ELSE fs
    /\ w_pc' = "sw_rename"
    /\ UNCHANGED <<w_kind, w_path, w_text, w_pre, w_renamed, w_failed, w_result>>

\* os.rename(temp_path, filepath); return True
SwRename(fault) ==
    /\ w_pc = "sw_rename"
    /\ IF fault
       THEN Raise("rename", "sw_cleanup") /\ UNCHANGED <<fs, w_renamed, w_result>>
       ELSE /\ fs' = FsRename(fs, TmpPath(w_path), w_path)
            /\ w_renamed' = TRUE
            /\ w_result' = "ok"
            /\ w_pc' = "done"
            /\ UNCHANGED w_failed
    /\ UNCHANGED <<w_kind, w_path, w_text, w_pre>>

\* except Exception: try: os.remove(temp_path) except OSError: pass; return False
SwCleanup ==
    /\ w_pc = "sw_cleanup"
    /\ fs' = IF fs[TmpPath(w_path)].exists THEN FsRemove(fs, TmpPath(w_path)) ELSE fs
    /\ w_result' = "fail"
    /\ w_pc' = "done"
    /\ UNCHANGED <<w_kind, w_path, w_text, w_pre, w_renamed, w_failed>>

\* ---- merge_config_file, step 3 ----
\* with open(temp_path, 'w') as f:
BwOpen(fault) ==
    /\ w_pc = "bw_open"
    /\ IF fault
       THEN Raise("open", "bw_cleanup") /\ UNCHANGED fs
       ELSE /\ fs' = FsOpenW(fs, TmpPath(w_path))
            /\ w_pc' = "bw_write"
            /\ UNCHANGED w_failed
    /\ UNCHANGED <<w_kind, w_path, w_text, w_pre, w_renamed, w_result>>

\* f.write(test_json); f.flush()
BwWrite(fault, n) ==
    /\ w_pc = "bw_write"
    /\ IF fault
       THEN /\ n < Len(w_text)
            /\ fs' = FsWrite(fs, TmpPath(w_path), SubSeq(w_text, 1, n))
            /\ Raise("write", "bw_cleanup")
       ELSE /\ n = Len(w_text)
            /\ fs' = FsWrite(fs, TmpPath(w_path), w_text)
            /\ w_pc' = "bw_verify"
            /\ UNCHANGED w_failed
    /\ UNCHANGED <<w_kind, w_path, w_text, w_pre, w_renamed, w_result>>

\* with open(temp_path, 'r') as f: json.loads(f.read())
BwVerify(fault) ==
    /\ w_pc = "bw_verify"
    /\ IF fault \/ ~LoadFile(fs, TmpPath(w_path)).ok
       THEN Raise("verify", "bw_cleanup")
       ELSE w_pc' = "bw_rename" /\ UNCHANGED w_failed
    /\ UNCHANGED <<fs, w_kind, w_path, w_text, w_pre, w_renamed, w_result>>

\* os.rename(temp_path, target_path); an OSError leads to the fallback
BwRename(oserror) ==
    /\ w_pc = "bw_rename"
    /\ IF oserror
       THEN w_pc' = "bw_fb_remove" /\ UNCHANGED <<fs, w_renamed, w_result>>
       ELSE /\ fs' = FsRename(fs, TmpPath(w_path), w_path)
            /\ w_renamed' = TRUE
            /\ w_result' = "ok"
            /\ w_pc' = "done"
    /\ UNCHANGED <<w_kind, w_path, w_text, w_pre, w_failed>>

\* fallback: os.remove(target_path), which raises when there is no target
BwFbRemove ==
    /\ w_pc = "bw_fb_remove"
    /\ IF fs[w_path].exists
       THEN /\ fs' = FsRemove(fs, w_path)
            /\ w_pc' = "bw_fb_rename"
            /\ UNCHANGED w_failed
       ELSE Raise("remove", "bw_cleanup") /\ UNCHANGED fs
    /\ UNCHANGED <<w_kind, w_path, w_text, w_pre, w_renamed, w_result>>

\* fallback: os.rename(temp_path, target_path)
BwFbRename(fault) ==
    /\ w_pc = "bw_fb_rename"
    /\ IF fault
       THEN Raise("rename", "bw_cleanup") /\ UNCHANGED <<fs, w_renamed, w_result>>
       ELSE /\ fs' = FsRename(fs, TmpPath(w_path), w_path)
            /\ w_renamed' = TRUE
            /\ w_result' = "ok"
            /\ w_pc' = "done"
            /\ UNCHANGED w_failed
    /\ UNCHANGED <<w_kind, w_path, w_text, w_pre>>

\* except Exception as atomic_error: os.remove(temp_path); raise  (-> return False)
BwCleanup ==
    /\ w_pc = "bw_cleanup"
    /\ fs' = IF fs[TmpPath(w_path)].exists THEN FsRemove(fs, TmpPath(w_path)) ELSE fs
    /\ w_result' = "fail"
    /\ w_pc' = "done"
    /\ UNCHANGED <<w_kind, w_path, w_text, w_pre, w_renamed, w_failed>>

\* ---- pin_detect.save_detected_pin ----
\* with open(config_path, "r") as f: config = json.load(f), then
\* config[button_name] = pin_name; a missing or unparsable file raises and the
\* except block only prints
SavePinStart(button_name, pin_name) ==
    /\ w_pc \in {"idle", "done", "reset"}
    /\ w_kind' = "pin"
    /\ w_path' = "/config.json"
    /\ w_pre' = fs["/config.json"]
    /\ w_renamed' = FALSE
    /\ LET loaded == LoadFile(fs, "/config.json") IN
       IF loaded.ok /\ IsDict(loaded.val)
       THEN /\ w_text' = DumpsIndent(Dict([k \in DOMAIN loaded.val.m \cup {button_name} |->
                              IF k = button_name THEN Scalar(pin_name)
                              ELSE loaded.val.m[k]]))
            /\ w_failed' = "none"
            /\ w_result' = "none"
            /\ w_pc' = "pw_open"
       ELSE /\ w_text' = <<>>
            /\ w_failed' = "load"
            /\ w_result' = "fail"
            /\ w_pc' = "done"
    /\ UNCHANGED fs

\* with open(config_path, "w") as f: the target itself is truncated
PwOpen(fault) ==
    /\ w_pc = "pw_open"
    /\ IF fault
       THEN /\ Raise("open", "done")
            /\ w_result' = "fail"
            /\ UNCHANGED fs
       ELSE /\ fs' = FsOpenW(fs, w_path)
            /\ w_pc' = "pw_write"
            /\ UNCHANGED <<w_failed, w_result>>
    /\ UNCHANGED <<w_kind, w_path, w_text, w_pre, w_renamed>>

\* json.dump(config, f, indent=2) and the close at the end of the with block;
\* a failing write leaves a prefix in the target
PwWrite(fault, n) ==
    /\ w_pc = "pw_write"
    /\ IF fault
       THEN /\ n < Len(w_text)
            /\ fs' = FsWrite(fs, w_path, SubSeq(w_text, 1, n))
            /\ Raise("write", "done")
            /\ w_result' = "fail"
       ELSE /\ n = Len(w_text)
            /\ fs' = FsWrite(fs, w_path, w_text)
            /\ w_pc' = "pw_reset"
            /\ UNCHANGED <<w_failed, w_result>>
    /\ UNCHANGED <<w_kind, w_path, w_text, w_pre, w_renamed>>

\* microcontroller.reset()
PwReset ==
    /\ w_pc = "pw_reset"
    /\ w_result' = "ok"
    /\ w_pc' = "reset"
    /\ UNCHANGED <<fs, w_kind, w_path, w_text, w_pre, w_renamed, w_failed>>

\* a reset or power loss while the writer is between two calls
WReset ==
    /\ w_pc \notin {"idle", "done", "reset"}
    /\ w_pc' = "reset"
    /\ UNCHANGED <<fs, w_kind, w_path, w_text, w_pre, w_renamed, w_failed, w_result>>

(***************************************************************************)
(* merge_config_file as one call.                                          *)
(***************************************************************************)
\* Python truthiness of a loaded JSON value
Truthy(x) == IF IsDict(x) THEN DOMAIN x.m # {} ELSE x.v # 0

\* step 3 of merge_config_file run to its end: [fs, ok].  fault names the
\* filesystem call that fails ("backup": writing the backup, which is not
\* part of this step): "open", "write" and "verify" fail before the
\* rename; "rename_oserror" is the first rename refusing to replace the
\* target, after which the fallback runs; "rename_fail" is the fallback's
\* rename failing as well.  The except block removes the temp file.
BootAtomicWrite(f, path, text, fault) ==
    LET tmp     == TmpPath(path)
        cleaned == IF f[tmp].exists THEN FsRemove(f, tmp) ELSE f
        written == FsWrite(FsOpenW(f, tmp), tmp, text)
    IN CASE fault = "open" -> [fs |-> cleaned, ok |-> FALSE]
         [] fault \in {"write", "verify"} -> [fs |-> FsRemove(f, tmp), ok |-> FALSE]
         [] fault \in {"none", "backup"} ->
                IF Loads(text).ok
                THEN [fs |-> FsRename(written, tmp, path), ok |-> TRUE]
                ELSE [fs |-> FsRemove(written, tmp), ok |-> FALSE]
         [] fault = "rename_oserror" ->
                IF f[path].exists
                THEN [fs |-> FsRename(FsRemove(written, path), tmp, path), ok |-> TRUE]
                ELSE [fs |-> FsRemove(written, tmp), ok |-> FALSE]
         [] fault = "rename_fail" ->
                IF f[path].exists
                THEN [fs |-> FsRemove(FsRemove(written, path), tmp), ok |-> FALSE]
                ELSE [fs |-> FsRemove(written, tmp), ok |-> FALSE]

BootFaults == {"none", "backup", "open", "write", "verify", "rename_oserror", "rename_fail"}

\* the best-effort backup of a non-empty existing config
WriteBackup(f, path, existing_config, bfault) ==
    IF Truthy(existing_config) /\ ~bfault
    THEN FsWrite(FsOpenW(f, BackupPath(path)), BackupPath(path),
                 Dumps(MakeJsonSafe(existing_config)))
    ELSE f

MergeIdle ==
    /\ m_target = "/config.json" /\ m_count = 0
    /\ m_existing = EmptyDict /\ m_update = EmptyDict
    /\ m_ret = "none" /\ m_prev_ret = "none"

\* mutant: the backup is written before the update is loaded
MergeConfigFile_BackupFirst(path, fault) ==
    LET ex_load  == LoadFile(fs, path)
        existing_config == IF ex_load.ok THEN ex_load.val ELSE EmptyDict
        up_load  == LoadFile(fs, UpdatePath(path))
        update_config == up_load.val
        backed   == WriteBackup(fs, path, existing_config, fault = "backup")
        merged_config == MergeConfig(existing_config, update_config, IsPresetFile(path))
        out      == BootAtomicWrite(backed, path, Dumps(MakeJsonSafe(merged_config)), fault)
    IN /\ m_count < MaxMerges
       /\ m_target = path
       /\ fs[UpdatePath(path)].exists
       /\ m_count' = m_count + 1
       /\ m_prev_ret' = m_ret
       /\ m_existing' = existing_config
       /\ IF ~up_load.ok \/ ~IsDict(update_config)
          THEN \* the update does not load, or len()/items() of a non-dict raises
               /\ fs' = backed
               /\ m_update' = EmptyDict
               /\ m_ret' = "false"
          ELSE IF ~IsDict(existing_config)
          THEN \* existing_config.copy() raises, after the backup was written
               /\ fs' = backed
               /\ m_update' = update_config
               /\ m_ret' = "false"
          ELSE /\ fs' = out.fs
               /\ m_update' = update_config
               /\ m_ret' = IF out.ok THEN "true" ELSE "false"
       /\ UNCHANGED m_target

\* merge_config_file('/updates/<name>', '/<name>', log)
MergeConfigFile(path, fault) ==
    LET ex_load  == LoadFile(fs, path)
        existing_config == IF ex_load.ok THEN ex_load.val ELSE EmptyDict
        up_load  == LoadFile(fs, UpdatePath(path))
        update_config == up_load.val
        backed   == WriteBackup(fs, path, existing_config, fault = "backup")
        merged_config == MergeConfig(existing_config, update_config, IsPresetFile(path))
        out      == BootAtomicWrite(backed, path, Dumps(MakeJsonSafe(merged_config)), fault)
    IN /\ m_count < MaxMerges
       /\ m_target = path
       /\ fs[UpdatePath(path)].exists
       /\ m_count' = m_count + 1
       /\ m_prev_ret' = m_ret
       /\ m_existing' = existing_config
       /\ IF ~up_load.ok \/ ~IsDict(update_config)
          THEN \* the update does not load, or len()/items() of a non-dict raises
               /\ fs' = fs
               /\ m_update' = EmptyDict
               /\ m_ret' = "false"
          ELSE IF ~IsDict(existing_config)
          THEN \* existing_config.copy() raises, after the backup was written
               /\ fs' = backed
               /\ m_update' = update_config
               /\ m_ret' = "false"
          ELSE /\ fs' = out.fs
               /\ m_update' = update_config
               /\ m_ret' = IF out.ok THEN "true" ELSE "false"
       /\ UNCHANGED m_target

(***************************************************************************)
(* SpecMerge: merge_config_file applied, once or again, to every pair of   *)
(* an existing file and a staged update drawn from ConfigDocs.             *)
(***************************************************************************)
PresetNames == {"User A", "Preset B"}
PresetDefs  == {Scalar("#00ff00"), Scalar("#ff0000")}
PresetMaps  == UNION {[ns -> PresetDefs] : ns \in SUBSET PresetNames}

\* documents of scalar settings, and documents holding a presets entry: the
\* merge treats every top-level key on its own
SettingKeys == {"version", "led_color"}
SettingDocs ==
    {Dict(f) : f \in UNION {[ks -> {Scalar(n) : n \in 1..MaxVal}] : ks \in SUBSET SettingKeys}}
PresetsDocs ==
    {Dict([k \in {"presets"} |-> x]) : x \in {Scalar(1)} \cup {Dict(pm) : pm \in PresetMaps}}
ConfigDocs == SettingDocs \cup PresetsDocs

MergeTargets == {"/config.json", "/presets.json"}
MergePaths(path) == {path, TmpPath(path), BackupPath(path), UpdatePath(path)}

Truncated == FileOf(<<LB>>)      \* a file cut off after its first token

MergeInit ==
    /\ WriterIdle
    /\ ReceiverIdle
    /\ h_stream = <<>> /\ h_transfer = NoTransfer /\ l_logs = {} /\ l_boots = 0
    /\ BootIdle
    /\ SessionIdle
    /\ m_count = 0
    /\ m_existing = EmptyDict /\ m_update = EmptyDict
    /\ m_ret = "none" /\ m_prev_ret = "none"
    /\ m_target \in MergeTargets
    /\ \E ex \in {Absent, Truncated} \cup {FileOf(Dumps(d)) : d \in ConfigDocs},
          up \in {Truncated, FileOf(Dumps(Scalar(1)))} \cup {FileOf(Dumps(d)) : d \in ConfigDocs} :
          fs = [p \in MergePaths(m_target) |->
                  IF p = m_target THEN ex
                  ELSE IF p = UpdatePath(m_target) THEN up
                  ELSE Absent]

\* merge_config_file touches neither the stepwise writer nor the serial session
MergeRest == UNCHANGED <<store_vars, serial_vars, boot_vars, receive_vars, hist_vars, log_vars>>

MergeNext ==
    \/ \E path \in MergeTargets, fault \in BootFaults : MergeConfigFile(path, fault) /\ MergeRest

(***************************************************************************)
(* handle_serial: the file-transfer session, one received line per step.   *)
(* A line is a sequence of tokens: a command word, or JSON text.           *)
(***************************************************************************)
Word(w) == [t |-> "word", s |-> w]
EndLine == <<Word("END")>>
ImportLine == <<Word("IMPORTUSER")>>
WriteLine(name) == <<Word("WRITEFILE:"), Word(name)>>

PreviewLine(led_name, hex_color) == <<Word("PREVIEWLED:"), Word(led_name), Word(hex_color)>>
ReadLine(name) == <<Word("READFILE:"), Word(name)>>
\* SAVEPIN:<button_name>:<pin_name>; pin n stands for the pin name "GP<n>"
SavePinLine(button_name, pin_name) == <<Word("SAVEPIN:"), Word(button_name), Val(Scalar(pin_name))>>

\* line.startswith("PREVIEWLED:"), "READFILE:", "SAVEPIN:"
IsPreviewLine(line) == line # <<>> /\ line[1] = Word("PREVIEWLED:")
IsReadLine(line) == line # <<>> /\ line[1] = Word("READFILE:")
IsSavePinLine(line) == line # <<>> /\ line[1] = Word("SAVEPIN:")

\* line.startswith("WRITEFILE:")
IsWriteLine(line) == Len(line) = 2 /\ line[1] = Word("WRITEFILE:")

\* filename = "/" + line.split(":", 1)[1]
FileNameOf(line) ==
    CASE line[2] = Word("user_presets.json") -> "/user_presets.json"
      [] line[2] = Word("presets.json")      -> "/presets.json"
      [] line[2] = Word("code.py")           -> "/code.py"
      [] line[2] = Word("config.json")       -> "/config.json"

\* use_high_speed_streaming: the named firmware modules, or any .py file
\* whose path is longer than 8 characters
StreamedNames ==
    { <<"s","e","r","i","a","l","_","h","a","n","d","l","e","r",".","p","y">>,
      <<"c","o","d","e",".","p","y">>,
      <<"g","a","m","e","p","a","d",".","p","y">>,
      <<"h","a","r","d","w","a","r","e",".","p","y">>,
      <<"u","t","i","l","s",".","p","y">>,
      <<"d","e","m","o","_","r","o","u","t","i","n","e",".","p","y">>,
      <<"d","e","m","o","_","s","t","a","t","e",".","p","y">>,
      <<"p","i","n","_","d","e","t","e","c","t",".","p","y">>,
      <<"b","o","o","t",".","p","y">> }

UseHighSpeedStreaming(filename) ==
    LET fname_lower == Lower(Chars(filename)) IN
    \/ \E n \in StreamedNames : Contains(fname_lower, n)
    \/ EndsWith(fname_lower, <<".","p","y">>) /\ Len(fname_lower) > 8

\* "\n".join(file_lines)
RECURSIVE JoinLines(_)
JoinLines(lines) ==
    IF lines = <<>> THEN <<>>
    ELSE IF Len(lines) = 1 THEN lines[1]
    ELSE lines[1] \o <<NL>> \o JoinLines(Tail(lines))

\* start_serial_indicator / stop_serial_indicator on st = [leds, ind]
IndicatorRed == <<255, 0, 0>>
IndicatorGreen == <<0, 255, 0>>

Started(st, operation_type) ==
    IF st.ind.active THEN st
    ELSE LET c == IF operation_type = "read" THEN IndicatorGreen ELSE IndicatorRed IN
         [leds |-> [st.leds EXCEPT ![0] = c, ![1] = c],
          ind  |-> [active |-> TRUE, saved |-> <<st.leds[0], st.leds[1]>>]]

Stopped(st) ==
    IF ~st.ind.active THEN st
    ELSE [leds |-> [st.leds EXCEPT ![0] = st.ind.saved[1], ![1] = st.ind.saved[2]],
          ind  |-> IndicatorOff]

LedState == [leds |-> s_leds, ind |-> s_indicator]
SetLeds(st) == s_leds' = st.leds /\ s_indicator' = st.ind

\* a call recorded in s_fx: what was called, whether it returned normally,
\* and how many responses had been written to serial before it
Fx(op, ok, after) == [op |-> op, ok |-> ok, after |-> after]

\* the responses written to serial
Reply(msg) == [kind |-> "OK", msg |-> msg]
Error(msg) == [kind |-> "ERROR", msg |-> msg]
\* "ACK: <line[:20]>", sent in Idle for the commands of the acknowledgment list
Ack(word) == [kind |-> "ACK", msg |-> word]

\* k.lower().startswith("user ") or "preset" in k.lower()
PresetNameOk(k) ==
    \/ StartsWith(Lower(Chars(k)), <<"u","s","e","r"," ">>)
    \/ Contains(Lower(Chars(k)), <<"p","r","e","s","e","t">>)

\* mutant: the validator tests the names only, never the values
ValidUserPresets_NamesOnly(parsed) ==
    /\ IsDict(parsed)
    /\ \A k \in DOMAIN parsed.m : PresetNameOk(k)

\* isinstance(parsed, dict) and all(isinstance(v, dict) and <name ok> for k, v in parsed.items())
ValidUserPresets(parsed) ==
    /\ IsDict(parsed)
    /\ \A k \in DOMAIN parsed.m : IsDict(parsed.m[k]) /\ PresetNameOk(k)

\* atomic_write_json run to its end: [fs, ok].  fault names the call that
\* raises: "open" and "write" (the temp file), "rename"; the target has been
\* removed by the time the rename runs.
SerialAtomicWrite(f, path, data, fault) ==
    LET tmp     == TmpPath(path)
        text    == Dumps(MakeJsonSafe(data)) \o <<NL>>
        written == FsWrite(FsOpenW(f, tmp), tmp, text)
        removed == IF written[path].exists THEN FsRemove(written, path) ELSE written
    IN CASE fault = "open"   -> [fs |-> IF f[tmp].exists THEN FsRemove(f, tmp) ELSE f,
                                 ok |-> FALSE]
         [] fault = "write"  -> [fs |-> FsRemove(f, tmp), ok |-> FALSE]
         [] fault = "rename" -> [fs |-> FsRemove(removed, tmp), ok |-> FALSE]
         [] fault = "none"   -> [fs |-> FsRename(removed, tmp, path), ok |-> TRUE]

SerialFaults == {"none", "open", "write", "rename"}

\* merged = existing.copy(); merged.update(new_data)
DictUpdate(existing, new_data) ==
    Dict([k \in DOMAIN existing.m \cup DOMAIN new_data.m |->
            IF HasKey(new_data, k) THEN new_data.m[k] ELSE existing.m[k]])

\* mode is None and line.startswith("WRITEFILE:"), for a file that is not
\* streamed: mode = "write"
CmdWriteFile(line) ==
    /\ s_mode = "idle"
    /\ IsWriteLine(line)
    /\ ~UseHighSpeedStreaming(FileNameOf(line))
    /\ s_filename' = FileNameOf(line)
    /\ s_file_lines' = <<>>
    /\ s_mode' = "write"
    /\ s_out' = <<Reply("WRITEFILE:READY")>>
    /\ s_line' = line
    /\ UNCHANGED <<fs, s_user_presets>>
    /\ UNCHANGED s_open
    /\ s_fx' = <<>>
    /\ SetLeds(Started(LedState, "write"))

\* mode is None and line == "IMPORTUSER"
CmdImportUser(line) ==
    /\ s_mode = "idle"
    /\ line = ImportLine
    /\ s_filename' = "/user_presets.json"
    /\ s_file_lines' = <<>>
    /\ s_mode' = "merge_user"
    /\ s_out' = <<>>
    /\ s_line' = line
    /\ UNCHANGED <<fs, s_user_presets>>
    /\ UNCHANGED s_open
    /\ s_fx' = <<>>
    /\ UNCHANGED <<s_leds, s_indicator>>

\* mode is None and no command matches
CmdUnknown(line) ==
    /\ s_mode = "idle"
    /\ ~IsWriteLine(line) /\ line # ImportLine
    /\ ~IsPreviewLine(line) /\ ~IsReadLine(line) /\ ~IsSavePinLine(line)
    /\ s_out' = <<Error("Unknown command")>>
    /\ s_line' = line
    /\ UNCHANGED <<fs, s_mode, s_filename, s_file_lines, s_user_presets>>
    /\ UNCHANGED s_open
    /\ s_fx' = <<>>
    /\ UNCHANGED <<s_leds, s_indicator>>

\* mode == "write" and line != "END": file_lines.append(line)
WritePayload(line) ==
    /\ s_mode = "write"
    /\ line # EndLine
    /\ ~IsPreviewLine(line)
    /\ Len(s_file_lines) < MaxLines
    /\ s_file_lines' = Append(s_file_lines, line)
    /\ s_out' = <<>>
    /\ s_line' = line
    /\ UNCHANGED <<fs, s_mode, s_filename, s_user_presets>>
    /\ UNCHANGED s_open
    /\ s_fx' = <<>>
    /\ UNCHANGED <<s_leds, s_indicator>>

\* mode == "write" and line == "END", for a .json target other than
\* /config.json
WriteEnd(line, fault) ==
    LET parsed == Loads(JoinLines(s_file_lines))
        out    == SerialAtomicWrite(fs, s_filename, parsed.val, fault)
    IN /\ s_mode = "write"
       /\ line = EndLine
       /\ EndsWith(Chars(s_filename), <<".","j","s","o","n">>)
       /\ s_filename # "/config.json"
       /\ IF ~parsed.ok
          THEN \* json.loads raises
               /\ s_out' = <<Error("Failed to write")>>
               /\ UNCHANGED <<fs, s_user_presets>>
          ELSE IF s_filename = "/user_presets.json"
          THEN IF ValidUserPresets(parsed.val)
               THEN /\ fs' = out.fs
                    /\ IF out.ok
                       THEN /\ s_out' = <<Reply("File written (atomic)")>>
                            /\ s_user_presets' = parsed.val
                       ELSE /\ s_out' = <<Error("Atomic write failed")>>
                            /\ UNCHANGED s_user_presets
               ELSE /\ s_out' = <<Error("Invalid user_presets.json structure, write rejected")>>
                    /\ UNCHANGED <<fs, s_user_presets>>
          ELSE \* any other small JSON file
               /\ fs' = out.fs
               /\ s_out' = IF out.ok THEN <<Reply("File written (atomic)")>>
                                     ELSE <<Error("Atomic write failed")>>
               /\ UNCHANGED s_user_presets
       /\ s_mode' = "idle"
       /\ s_file_lines' = <<>>
       /\ s_line' = line
       /\ UNCHANGED s_filename
       /\ UNCHANGED s_open
       /\ s_fx' = <<>>
       /\ SetLeds(Stopped(LedState))

\* mode == "merge_user" and line != "END": file_lines.append(line)
MergePayload(line) ==
    /\ s_mode = "merge_user"
    /\ line # EndLine
    /\ ~IsPreviewLine(line)
    /\ Len(s_file_lines) < MaxLines
    /\ s_file_lines' = Append(s_file_lines, line)
    /\ s_out' = <<>>
    /\ s_line' = line
    /\ UNCHANGED <<fs, s_mode, s_filename, s_user_presets>>
    /\ UNCHANGED s_open
    /\ s_fx' = <<>>
    /\ UNCHANGED <<s_leds, s_indicator>>

\* mode == "merge_user" and line == "END"
MergeEnd(line, fault) ==
    LET new_data == Loads(JoinLines(s_file_lines))
        ex_load  == LoadFile(fs, s_filename)
        existing == IF ex_load.ok THEN ex_load.val ELSE EmptyDict
        merged   == DictUpdate(existing, new_data.val)
        out      == SerialAtomicWrite(fs, s_filename, merged, fault)
    IN /\ s_mode = "merge_user"
       /\ line = EndLine
       /\ IF ~new_data.ok \/ ~IsDict(existing) \/ ~IsDict(new_data.val)
          THEN \* json.loads, existing.copy() or merged.update(new_data) raises
               /\ s_out' = <<Error("exception")>>
               /\ UNCHANGED <<fs, s_user_presets>>
          ELSE IF s_filename = "/user_presets.json" /\ ValidUserPresets(merged)
          THEN /\ fs' = out.fs
               /\ IF out.ok
                  THEN /\ s_user_presets' = merged
                       /\ s_out' = <<Reply("Merged (atomic)")>>
                  ELSE /\ s_out' = <<Error("Atomic merge write failed")>>
                       /\ UNCHANGED s_user_presets
          ELSE /\ s_out' = <<Error("Invalid user_presets.json structure, merge rejected")>>
               /\ UNCHANGED <<fs, s_user_presets>>
       /\ s_mode' = "idle"
       /\ s_file_lines' = <<>>
       /\ s_line' = line
       /\ UNCHANGED s_filename
       /\ UNCHANGED s_open
       /\ s_fx' = <<>>
       /\ SetLeds(Stopped(LedState))

\* a line handled by handle_serial touches neither writer nor merge state
SerialRest == UNCHANGED <<store_vars, merge_vars, boot_vars, receive_vars, hist_vars, log_vars>>

(***************************************************************************)
(* handle_serial: streamed transfers.  In mode "write_stream" file_lines   *)
(* holds the open file handle and, after the first payload line, a line    *)
(* counter.  s_open counts the handles opened and not closed by a close()  *)
(* call; open() fails once MaxHandles are open.                            *)
(***************************************************************************)
Handle(path) == [t |-> "handle", path |-> path]
Count(n) == [t |-> "count", n |-> n]

\* the top-level "except Exception" of handle_serial
Crashed ==
    /\ s_mode' = "idle"
    /\ s_file_lines' = <<>>
    /\ s_out' = <<Error("Serial crash")>>

\* mutant: a failed open leaves the session in mode "write_stream"
CmdWriteFileStream_NoFallback(line, fault) ==
    /\ s_mode = "idle"
    /\ IsWriteLine(line)
    /\ UseHighSpeedStreaming(FileNameOf(line))
    /\ s_filename' = FileNameOf(line)
    /\ s_line' = line
    /\ s_mode' = "write_stream"
    /\ IF fault = "open" \/ s_open >= MaxHandles
       THEN /\ s_file_lines' = <<>>
            /\ s_out' = <<Reply("WRITEFILE:READY"), Reply("STREAM:READY"),
                          Error("Failed to open stream")>>
            /\ UNCHANGED <<fs, s_open>>
       ELSE /\ fs' = FsOpenW(fs, FileNameOf(line))
            /\ s_file_lines' = <<Handle(FileNameOf(line))>>
            /\ s_open' = s_open + 1
            /\ s_out' = <<Reply("WRITEFILE:READY"), Reply("STREAM:READY")>>
    /\ UNCHANGED s_user_presets
    /\ s_fx' = <<>>
    /\ SetLeds(Started(LedState, "write"))

\* mode is None and line.startswith("WRITEFILE:"), for a streamed file: the
\* handle is opened at once; when open() raises the session falls back to
\* mode "write"
CmdWriteFileStream(line, fault) ==
    /\ s_mode = "idle"
    /\ IsWriteLine(line)
    /\ UseHighSpeedStreaming(FileNameOf(line))
    /\ s_filename' = FileNameOf(line)
    /\ s_line' = line
    /\ IF fault = "open" \/ s_open >= MaxHandles
       THEN /\ s_mode' = "write"
            /\ s_file_lines' = <<>>
            /\ s_out' = <<Reply("WRITEFILE:READY"), Reply("STREAM:READY"),
                          Error("Failed to open stream")>>
            /\ UNCHANGED <<fs, s_open>>
       ELSE /\ s_mode' = "write_stream"
            /\ fs' = FsOpenW(fs, FileNameOf(line))
            /\ s_file_lines' = <<Handle(FileNameOf(line))>>
            /\ s_open' = s_open + 1
            /\ s_out' = <<Reply("WRITEFILE:READY"), Reply("STREAM:READY")>>
    /\ UNCHANGED s_user_presets
    /\ s_fx' = <<>>
    /\ SetLeds(Started(LedState, "write"))

\* mutant: a failed payload write returns to Idle without clearing file_lines
StreamPayload_KeepsBuffer(line, fault) ==
    /\ s_mode = "write_stream"
    /\ line # EndLine
    /\ ~IsPreviewLine(line)
    /\ fault = "write"
    /\ s_line' = line
    /\ s_mode' = "idle"
    /\ s_out' = <<Error("Stream write error")>>
    /\ UNCHANGED <<fs, s_file_lines, s_filename, s_user_presets, s_open>>
    /\ s_fx' = <<>>
    /\ UNCHANGED <<s_leds, s_indicator>>

\* mutant: the line goes to the handle without its newline
StreamPayload_NoNewline(line, fault) ==
    LET n == IF Len(s_file_lines) = 1 THEN 0 ELSE s_file_lines[2].n IN
    /\ s_mode = "write_stream"
    /\ line # EndLine
    /\ ~IsPreviewLine(line)
    /\ n < MaxLines
    /\ fault = "none"
    /\ s_line' = line
    /\ fs' = FsWrite(fs, s_filename, line)
    /\ s_file_lines' = <<s_file_lines[1], Count(n + 1)>>
    /\ s_out' = <<>>
    /\ s_fx' = <<>>
    /\ UNCHANGED <<s_mode, s_filename, s_user_presets, s_open, s_leds, s_indicator>>

StreamFaults == {"none", "write", "write_crash"}

\* file_lines and hasattr(file_lines[0], 'write')
HasHandle(file_lines) == file_lines # <<>> /\ file_lines[1].t = "handle"

\* mode == "write_stream" and line != "END": the line goes to the handle, or
\* "Invalid stream handle" is reported when file_lines holds none.
\* fault "write": the write raises and the handler reports it;
\* "write_crash": reporting it raises as well and the top-level handler
\* takes over.
StreamPayload(line, fault) ==
    LET n == IF Len(s_file_lines) < 2 THEN 0 ELSE s_file_lines[2].n IN
    /\ s_mode = "write_stream"
    /\ line # EndLine
    /\ ~IsPreviewLine(line)
    /\ n < MaxLines
    /\ s_line' = line
    /\ CASE ~HasHandle(s_file_lines) ->
              /\ s_mode' = "idle"
              /\ s_file_lines' = <<>>
              /\ s_out' = <<Error("Invalid stream handle")>>
              /\ UNCHANGED fs
         [] fault = "none" ->
              /\ fs' = FsWrite(fs, s_filename, line \o <<NL>>)
              /\ s_file_lines' = <<s_file_lines[1], Count(n + 1)>>
              /\ s_out' = <<>>
              /\ UNCHANGED s_mode
         [] fault = "write" ->
              /\ s_mode' = "idle"
              /\ s_file_lines' = <<>>
              /\ s_out' = <<Error("Stream write error")>>
              /\ UNCHANGED fs
         [] fault = "write_crash" ->
              /\ Crashed
              /\ UNCHANGED fs
    /\ UNCHANGED <<s_filename, s_user_presets, s_open>>
    /\ s_fx' = <<>>
    /\ UNCHANGED <<s_leds, s_indicator>>

\* mutant: flush and close come first, and a failure of either is reported
StreamEnd_CloseFirst(line, fault, released) ==
    /\ s_mode = "write_stream"
    /\ line = EndLine
    /\ fault = "close" \/ released
    /\ s_line' = line
    /\ s_out' = IF fault = "none" THEN <<Reply("File written (high-speed streaming)")>>
                ELSE <<Error("Stream completion error")>>
    /\ s_open' = IF fault = "close" /\ ~released THEN s_open ELSE s_open - 1
    /\ s_mode' = "idle"
    /\ s_file_lines' = <<>>
    /\ s_fx' = <<Fx("flush", fault # "flush", 0), Fx("close", fault # "close", 0)>>
    /\ SetLeds(Stopped(LedState))
    /\ UNCHANGED <<fs, s_filename, s_user_presets>>

EndFaults == {"none", "ack", "flush", "close"}

\* mode == "write_stream" and line == "END": acknowledge first, then flush
\* and close.  fault "ack": the acknowledgment raises, flush and close are
\* skipped; "flush": flush raises, close still runs; "close": close raises,
\* and the handle may or may not have been released.
StreamEnd(line, fault, released) ==
    /\ s_mode = "write_stream"
    /\ line = EndLine
    /\ fault = "close" \/ released
    /\ s_line' = line
    /\ s_out' = IF fault = "ack" THEN <<Error("Stream completion error")>>
                ELSE <<Reply("File written (high-speed streaming)")>>
    /\ s_open' = IF fault = "ack" \/ (fault = "close" /\ ~released)
                 THEN s_open ELSE s_open - 1
    /\ s_mode' = "idle"
    /\ s_file_lines' = <<>>
    /\ UNCHANGED <<fs, s_filename, s_user_presets>>
    /\ s_fx' = CASE fault = "ack"   -> <<>>
                [] fault = "flush" -> <<Fx("flush", FALSE, 1), Fx("close", TRUE, 1)>>
                [] fault = "close" -> <<Fx("flush", TRUE, 1), Fx("close", FALSE, 1)>>
                [] OTHER           -> <<Fx("flush", TRUE, 1), Fx("close", TRUE, 1)>>
    /\ SetLeds(Stopped(LedState))

\* mode == "write" and line == "END", for a target that is not .json: the
\* buffered lines are written in place
WriteEndPlain(line, fault) ==
    LET opened == FsOpenW(fs, s_filename) IN
    /\ s_mode = "write"
    /\ line = EndLine
    /\ ~EndsWith(Chars(s_filename), <<".","j","s","o","n">>)
    /\ CASE fault = "open" ->
              /\ s_out' = <<Error("Failed to write")>>
              /\ UNCHANGED fs
         [] fault = "write" ->
              /\ s_out' = <<Error("Failed to write")>>
              /\ fs' = opened
         [] OTHER ->
              /\ s_out' = <<Reply("File written")>>
              /\ fs' = FsWrite(opened, s_filename, JoinLines(s_file_lines) \o <<NL>>)
    /\ s_mode' = "idle"
    /\ s_file_lines' = <<>>
    /\ s_line' = line
    /\ UNCHANGED <<s_filename, s_user_presets, s_open>>
    /\ s_fx' = <<>>
    /\ SetLeds(Stopped(LedState))

(***************************************************************************)
(* The writers of /config.json in the session: WRITEFILE:config.json and   *)
(* SAVEPIN.  Both end in microcontroller.reset(); the device then starts   *)
(* again and code.py sets the session up afresh.                           *)
(***************************************************************************)
\* microcontroller.reset() with the filesystem f: code.py runs again
Restarted(f) ==
    /\ s_mode' = "idle"
    /\ s_filename' = ""
    /\ s_file_lines' = <<>>
    /\ s_user_presets' = IF "/user_presets.json" \in DOMAIN f
                               /\ LoadFile(f, "/user_presets.json").ok
                          THEN LoadFile(f, "/user_presets.json").val ELSE EmptyDict
    /\ s_open' = 0
    /\ s_leds' = LedsReleased
    /\ s_indicator' = IndicatorOff

\* mutant: the device resets as soon as the file is written, before the
\* success line and the deinit calls
WriteEndConfig_ResetFirst(line, fault, deinit_ok) ==
    LET parsed == Loads(JoinLines(s_file_lines))
        out    == SerialAtomicWrite(fs, s_filename, parsed.val, fault)
    IN /\ s_mode = "write"
       /\ line = EndLine
       /\ s_filename = "/config.json"
       /\ parsed.ok /\ out.ok /\ deinit_ok
       /\ s_line' = line
       /\ fs' = out.fs
       /\ s_out' = <<>>
       /\ s_fx' = <<Fx("reset", TRUE, 0)>>
       /\ Restarted(out.fs)

\* mode == "write" and line == "END", for /config.json: after a successful
\* write the success line, then leds.deinit(), every button's deinit() (a
\* failure is passed over), whammy.deinit(), then microcontroller.reset()
WriteEndConfig(line, fault, deinit_ok) ==
    LET parsed == Loads(JoinLines(s_file_lines))
        out    == SerialAtomicWrite(fs, s_filename, parsed.val, fault)
    IN /\ s_mode = "write"
       /\ line = EndLine
       /\ s_filename = "/config.json"
       /\ s_line' = line
       /\ IF parsed.ok /\ out.ok
          THEN /\ fs' = out.fs
               /\ s_out' = <<Reply("File written (atomic)")>>
               /\ s_fx' = <<Fx("leds.deinit", TRUE, 1), Fx("buttons.deinit", deinit_ok, 1),
                            Fx("whammy.deinit", TRUE, 1), Fx("reset", TRUE, 1)>>
               /\ Restarted(out.fs)
          ELSE /\ deinit_ok
               /\ fs' = IF parsed.ok THEN out.fs ELSE fs
               /\ s_out' = IF parsed.ok THEN <<Error("Atomic write failed")>>
                                         ELSE <<Error("Failed to write")>>
               /\ s_fx' = <<>>
               /\ s_mode' = "idle"
               /\ s_file_lines' = <<>>
               /\ SetLeds(Stopped(LedState))
               /\ UNCHANGED <<s_filename, s_user_presets, s_open>>

\* pin_detect.save_detected_pin run to its end: [fs, reset].  fault names the
\* call that raises: "open" (the target, for writing) or "write" (json.dump,
\* after the target was truncated); the except block only prints.
PinFaults == {"none", "open", "write"}

SaveDetectedPin(f, config_path, button_name, pin_name, fault) ==
    LET loaded == LoadFile(f, config_path)
        config == Dict([k \in DOMAIN loaded.val.m \cup {button_name} |->
                          IF k = button_name THEN Scalar(pin_name) ELSE loaded.val.m[k]])
    IN IF ~loaded.ok \/ ~IsDict(loaded.val) \/ fault = "open"
       THEN [fs |-> f, reset |-> FALSE]
       ELSE IF fault = "write"
       THEN [fs |-> FsOpenW(f, config_path), reset |-> FALSE]
       ELSE [fs |-> FsWrite(FsOpenW(f, config_path), config_path, DumpsIndent(config)),
             reset |-> TRUE]

\* mode is None and line.startswith("SAVEPIN:"): when save_detected_pin
\* saves the pin it resets the device and never returns; when it fails it
\* returns normally and PINDETECT:SAVED is written
CmdSavePin(line, fault) ==
    LET out == SaveDetectedPin(fs, "/config.json", line[2].s, line[3].v.v, fault) IN
    /\ s_mode = "idle"
    /\ IsSavePinLine(line)
    /\ s_line' = line
    /\ fs' = out.fs
    /\ IF out.reset
       THEN /\ s_out' = <<Ack("SAVEPIN")>>
            /\ s_fx' = <<Fx("reset", TRUE, 1)>>
            /\ Restarted(out.fs)
       ELSE /\ s_out' = <<Ack("SAVEPIN"), Reply("PINDETECT:SAVED")>>
            /\ s_fx' = <<>>
            /\ UNCHANGED <<s_mode, s_filename, s_file_lines, s_user_presets, s_open,
                           s_leds, s_indicator>>

(***************************************************************************)
(* SpecConfig: WRITEFILE transfers to /config.json and /presets.json and   *)
(* SAVEPIN commands, with failing filesystem calls.                        *)
(***************************************************************************)
ConfigLines ==
    {Dumps(d) : d \in StoreDocs}
        \cup {<<LB>>, EndLine, WriteLine("config.json"), WriteLine("presets.json")}
        \cup {SavePinLine("GREEN_FRET", n) : n \in 1..MaxVal}

ConfigTargets == {"/config.json", "/presets.json"}
ConfigPaths == ConfigTargets \cup {TmpPath(p) : p \in ConfigTargets}

\* /config.json holds a document, as code.py needs it to start
ConfigInit ==
    /\ WriterIdle
    /\ ReceiverIdle
    /\ h_stream = <<>> /\ h_transfer = NoTransfer /\ l_logs = {} /\ l_boots = 0
    /\ BootIdle
    /\ MergeIdle
    /\ SessionIdle
    /\ \E d \in StoreDocs :
          fs = [p \in ConfigPaths |->
                  IF p = "/config.json" THEN FileOf(Dumps(d) \o <<NL>>) ELSE Absent]

ConfigNext ==
    \/ \E line \in ConfigLines : CmdWriteFile(line) /\ SerialRest
    \/ \E line \in ConfigLines : WritePayload(line) /\ SerialRest
    \/ \E line \in ConfigLines, fault \in SerialFaults : WriteEnd(line, fault) /\ SerialRest
    \/ \E line \in ConfigLines, fault \in SerialFaults, deinit_ok \in BOOLEAN :
          WriteEndConfig(line, fault, deinit_ok) /\ SerialRest
    \/ \E line \in ConfigLines, fault \in PinFaults : CmdSavePin(line, fault) /\ SerialRest
    \/ \E line \in ConfigLines : CmdUnknown(line) /\ SerialRest

(***************************************************************************)
(* handle_serial: the byte loop.  The main loop of code.py calls           *)
(* handle_serial with max_bytes = 8 once per iteration; the host may send  *)
(* at any time.  What a dispatched line does is left open, except that     *)
(* some handlers return from handle_serial at once and the others let the  *)
(* loop go on.                                                             *)
(***************************************************************************)
MaxBytes == 8
BadByte == "0xFF"      \* a byte that byte.decode("utf-8") rejects

\* what the host sends in one go
HostChunks == {<<"E","N","D","\r","\n">>, <<"o","k","\n">>, <<"o">>, <<BadByte>>}

\* buffer.rstrip("\r\n")
RECURSIVE RStrip(_)
RStrip(cs) ==
    IF cs # <<>> /\ cs[Len(cs)] \in {"\r", "\n"} THEN RStrip(SubSeq(cs, 1, Len(cs) - 1))
    ELSE cs

HostSend(chunk) ==
    /\ r_sent + Len(chunk) <= MaxSent
    /\ r_sent' = r_sent + Len(chunk)
    /\ r_waiting' = r_waiting \o chunk
    /\ h_stream' = h_stream \o chunk
    /\ UNCHANGED <<r_buffer, r_pc, r_iter, r_taken, r_lines>>

\* code.py: handle_serial(..., 8, start_tilt_wave)
CallStart ==
    /\ r_pc = "loop"
    /\ r_pc' = "call"
    /\ r_iter' = 0
    /\ r_taken' = 0
    /\ UNCHANGED <<r_waiting, r_buffer, r_lines, r_sent, h_stream>>

\* mutant: the loop reads for as long as bytes are waiting
ReadByte_WhileWaiting(returns) ==
    LET char == Head(r_waiting) IN
    /\ r_pc = "call"
    /\ r_waiting # <<>>
    /\ r_waiting' = Tail(r_waiting)
    /\ r_iter' = r_iter
    /\ r_taken' = r_taken + 1
    /\ r_buffer' = IF char = BadByte THEN r_buffer
                   ELSE IF char = "\n" THEN <<>> ELSE Append(r_buffer, char)
    /\ r_lines' = IF char = "\n" THEN Append(r_lines, RStrip(r_buffer)) ELSE r_lines
    /\ r_pc' = IF char = "\n" /\ returns THEN "loop" ELSE "call"
    /\ char = "\n" \/ ~returns
    /\ UNCHANGED <<r_sent, h_stream>>

\* one iteration of `for _ in range(max_bytes)` with a byte waiting:
\* serial.read(1); a byte that does not decode is skipped; "\n" dispatches
\* the line and empties the buffer; any other character is appended
ReadByte(returns) ==
    LET char == Head(r_waiting) IN
    /\ r_pc = "call"
    /\ r_iter < MaxBytes
    /\ r_waiting # <<>>
    /\ r_waiting' = Tail(r_waiting)
    /\ r_iter' = r_iter + 1
    /\ r_taken' = r_taken + 1
    /\ r_buffer' = IF char = BadByte THEN r_buffer
                   ELSE IF char = "\n" THEN <<>> ELSE Append(r_buffer, char)
    /\ r_lines' = IF char = "\n" THEN Append(r_lines, RStrip(r_buffer)) ELSE r_lines
    /\ r_pc' = IF char = "\n" /\ returns THEN "loop" ELSE "call"
    /\ char = "\n" \/ ~returns
    /\ UNCHANGED <<r_sent, h_stream>>

\* mutant: the buffer does not survive the return
CallReturn_DropsBuffer ==
    /\ r_pc = "call"
    /\ r_iter = MaxBytes \/ r_waiting = <<>>
    /\ r_pc' = "loop"
    /\ r_buffer' = <<>>
    /\ UNCHANGED <<r_waiting, r_iter, r_taken, r_lines, r_sent, h_stream>>

\* `if not serial.in_waiting: return`, or the loop has made max_bytes
\* iterations; the buffer is handed back to the main loop
CallReturn ==
    /\ r_pc = "call"
    /\ r_iter = MaxBytes \/ r_waiting = <<>>
    /\ r_pc' = "loop"
    /\ UNCHANGED <<r_waiting, r_buffer, r_iter, r_taken, r_lines, r_sent, h_stream>>

\* the byte loop touches no file
ReceiveRest == UNCHANGED <<fs, store_vars, merge_vars, serial_vars, boot_vars, h_transfer, log_vars>>

ReceiveInit ==
    /\ WriterIdle
    /\ ReceiverIdle
    /\ h_stream = <<>> /\ h_transfer = NoTransfer /\ l_logs = {} /\ l_boots = 0
    /\ BootIdle
    /\ MergeIdle
    /\ SessionIdle
    /\ fs = [p \in {"/config.json"} |-> Absent]

ReceiveNext ==
    \/ \E chunk \in HostChunks : HostSend(chunk) /\ ReceiveRest
    \/ CallStart /\ ReceiveRest
    \/ \E returns \in BOOLEAN : ReadByte(returns) /\ ReceiveRest
    \/ CallReturn /\ ReceiveRest

(***************************************************************************)
(* READFILE.  What is written to serial is recorded write by write, each   *)
(* write as the text it carries; the markers are single tokens.            *)
(***************************************************************************)
StartMark(fname) == [t |-> "START_", name |-> fname]
EndMark(fname) == [t |-> "END_", name |-> fname]
ErrorMark == [t |-> "ERROR: "]
Data(txt) == [kind |-> "DATA", msg |-> txt]

\* f.readlines(): the lines of a text, each with its newline; the last one
\* has none when the text does not end in a newline
RECURSIVE ReadLinesFrom(_, _)
ReadLinesFrom(txt, cur) ==
    IF txt = <<>> THEN (IF cur = <<>> THEN <<>> ELSE <<cur>>)
    ELSE IF Head(txt) = NL THEN <<Append(cur, NL)>> \o ReadLinesFrom(Tail(txt), <<>>)
    ELSE ReadLinesFrom(Tail(txt), Append(cur, Head(txt)))

ReadLines(txt) == ReadLinesFrom(txt, <<>>)

\* l.strip() is empty or equals "FIRMWARE_READY:OK"
Skipped(l) ==
    LET l_stripped == StripNL(l) IN
    l_stripped = <<>> \/ l_stripped = <<Word("FIRMWARE_READY:OK")>>

\* the writes of the loop over lines
RECURSIVE SendLines(_)
SendLines(lines) ==
    IF lines = <<>> THEN <<>>
    ELSE (IF Skipped(Head(lines)) THEN <<>> ELSE <<Data(Head(lines))>>)
         \o SendLines(Tail(lines))

ReadFaults == {"none", "read"}

\* mode is None and line.startswith("READFILE:"): START_<name>, the lines
\* that are not skipped, END_<name>; when open() or readlines() raises,
\* "ERROR: <e>" and END_<name> in one write.  The read indicator is started
\* before and stopped after.
CmdReadFile(line, fault) ==
    LET fname == line[2].s
        path  == FileNameOf(line)
        start == Data(<<StartMark(fname), NL>>)
    IN /\ s_mode = "idle"
       /\ IsReadLine(line)
       /\ s_line' = line
       /\ s_filename' = path
       /\ s_out' = IF fs[path].exists /\ fault = "none"
                   THEN <<Ack("READFILE"), start>> \o SendLines(ReadLines(fs[path].text))
                            \o <<Data(<<EndMark(fname), NL>>)>>
                   ELSE <<Ack("READFILE"), start,
                          Data(<<ErrorMark, NL, EndMark(fname), NL>>)>>
       /\ s_fx' = <<>>
       /\ SetLeds(Stopped(Started(LedState, "read")))
       /\ UNCHANGED <<fs, s_mode, s_file_lines, s_user_presets, s_open>>

(***************************************************************************)
(* SpecRead: READFILE over files of up to MaxLines lines, with and without *)
(* a final newline, with blank lines and FIRMWARE_READY:OK lines.          *)
(***************************************************************************)
FileLineKinds ==
    {Dumps(Dict([k \in {"version"} |-> Scalar(1)])), <<>>, <<Word("FIRMWARE_READY:OK")>>,
     <<Word("import json")>>}

RECURSIVE TextsOf(_)
TextsOf(n) ==
    IF n = 0 THEN {<<>>}
    ELSE LET shorter == TextsOf(n - 1) IN
         shorter \cup {t \o l \o <<NL>> : t \in shorter, l \in FileLineKinds}

\* texts of up to MaxLines lines; the last line may lack its newline
ReadTexts ==
    TextsOf(MaxLines)
        \cup {t \o l : t \in TextsOf(MaxLines - 1), l \in FileLineKinds}

ReadTargets == {"/config.json", "/code.py"}

ReadInit ==
    /\ WriterIdle
    /\ ReceiverIdle
    /\ h_stream = <<>> /\ h_transfer = NoTransfer /\ l_logs = {} /\ l_boots = 0
    /\ BootIdle
    /\ MergeIdle
    /\ SessionIdle
    /\ \E f \in {Absent} \cup {FileOf(t) : t \in ReadTexts} :
          fs = [p \in ReadTargets |-> f]

ReadNext ==
    \/ \E line \in {ReadLine("config.json"), ReadLine("code.py")}, fault \in ReadFaults :
          CmdReadFile(line, fault) /\ SerialRest

(***************************************************************************)
(* PREVIEWLED, handled in every mode.                                      *)
(***************************************************************************)
\* int(c, 16) of one character, -1 when it is not a hex digit
HexDigit(c) ==
    LET digits == <<"0","1","2","3","4","5","6","7","8","9","a","b","c","d","e","f">> IN
    IF \E i \in 1..16 : digits[i] = LowerChar(c)
    THEN (CHOOSE i \in 1..16 : digits[i] = LowerChar(c)) - 1
    ELSE -1

\* str.lstrip("#")
RECURSIVE LStripHash(_)
LStripHash(cs) == IF cs # <<>> /\ Head(cs) = "#" THEN LStripHash(Tail(cs)) ELSE cs

\* utils.hex_to_rgb: black for an empty string, a wrong length or a
\* character that is not a hex digit
HexToRgb(hex_color) ==
    LET h == LStripHash(Chars(hex_color)) IN
    IF Len(h) # 6 \/ \E i \in 1..6 : HexDigit(h[i]) = -1
    THEN <<0, 0, 0>>
    ELSE <<16 * HexDigit(h[1]) + HexDigit(h[2]),
           16 * HexDigit(h[3]) + HexDigit(h[4]),
           16 * HexDigit(h[5]) + HexDigit(h[6])>>

\* name_map.get(led_name.lower()), for the names the model sends; "" is None
NameMap(led_name) ==
    LET n == Lower(Chars(led_name)) IN
    CASE n = Chars("strum-up")   -> "STRUM_UP_led"
      [] n = Chars("strum-down") -> "STRUM_DOWN_led"
      [] n = Chars("green-fret") -> "GREEN_FRET_led"
      [] OTHER                   -> ""

\* config.get(led_key): the pixel of each LED, -1 is None
LedIndex(led_key) ==
    CASE led_key = "STRUM_UP_led"   -> 0
      [] led_key = "STRUM_DOWN_led" -> 1
      [] led_key = "GREEN_FRET_led" -> 2
      [] OTHER                      -> -1

\* mutant: outside Idle the preview line is taken for payload
PreviewLed_Absorbed(line) ==
    /\ IsPreviewLine(line)
    /\ s_line' = line
    /\ s_out' = IF s_mode = "idle" THEN <<Ack("PREVIEWLED")>> ELSE <<>>
    /\ s_fx' = <<>>
    /\ s_file_lines' = IF s_mode = "idle" THEN s_file_lines ELSE Append(s_file_lines, line)
    /\ UNCHANGED <<fs, s_mode, s_filename, s_user_presets, s_open, s_leds, s_indicator>>

\* if line.startswith("PREVIEWLED:"): one pixel is set when the line has three
\* parts and the name is known; every exception is swallowed; the handler
\* returns the session as it found it
PreviewLed(line) ==
    /\ IsPreviewLine(line)
    /\ s_line' = line
    /\ s_out' = IF s_mode = "idle" THEN <<Ack("PREVIEWLED")>> ELSE <<>>
    /\ s_fx' = <<>>
    /\ LET i == IF Len(line) = 3 THEN LedIndex(NameMap(line[2].s)) ELSE -1 IN
       s_leds' = IF i # -1 THEN [s_leds EXCEPT ![i] = HexToRgb(line[3].s)] ELSE s_leds
    /\ UNCHANGED <<fs, s_mode, s_filename, s_file_lines, s_user_presets, s_open, s_indicator>>

(***************************************************************************)
(* SpecPreview: transfers in the three modes with PREVIEWLED lines sent    *)
(* before, during and after them.                                          *)
(***************************************************************************)
PreviewLines ==
    {PreviewLine("Strum-Up", "#0000FF"), PreviewLine("green-fret", "#00gg00"),
     PreviewLine("whammy", "#0000FF"),
     <<Word("PREVIEWLED:"), Word("green-fret")>>}

PreviewSessionLines ==
    PreviewLines \cup {EndLine, ImportLine, WriteLine("code.py"), WriteLine("presets.json")}

PreviewTargets == {"/code.py", "/presets.json", "/user_presets.json"}
PreviewPaths == PreviewTargets \cup {TmpPath("/presets.json"), TmpPath("/user_presets.json")}

PreviewInit ==
    /\ WriterIdle
    /\ ReceiverIdle
    /\ h_stream = <<>> /\ h_transfer = NoTransfer /\ l_logs = {} /\ l_boots = 0
    /\ BootIdle
    /\ MergeIdle
    /\ SessionIdle
    /\ fs = [p \in PreviewPaths |-> Absent]

PreviewNext ==
    \/ \E line \in PreviewSessionLines : PreviewLed(line) /\ SerialRest
    \/ \E line \in PreviewSessionLines : CmdWriteFile(line) /\ SerialRest
    \/ \E line \in PreviewSessionLines : CmdWriteFileStream(line, "none") /\ SerialRest
    \/ \E line \in PreviewSessionLines : CmdImportUser(line) /\ SerialRest
    \/ \E line \in PreviewSessionLines : WritePayload(line) /\ SerialRest
    \/ \E line \in PreviewSessionLines : MergePayload(line) /\ SerialRest
    \/ \E line \in PreviewSessionLines : StreamPayload(line, "none") /\ SerialRest
    \/ \E line \in PreviewSessionLines : WriteEnd(line, "none") /\ SerialRest
    \/ \E line \in PreviewSessionLines : MergeEnd(line, "none") /\ SerialRest
    \/ \E line \in PreviewSessionLines : StreamEnd(line, "none", TRUE) /\ SerialRest
    \/ \E line \in PreviewSessionLines : CmdUnknown(line) /\ SerialRest

(***************************************************************************)
(* SpecSerial: every sequence of lines drawn from SerialLines.             *)
(***************************************************************************)
Green1 == Dict([l \in {"green"} |-> Scalar("#00ff00")])
Green2 == Dict([l \in {"green"} |-> Scalar("#ff0000")])
Red    == Dict([l \in {"red"} |-> Scalar("#ff0000")])

DocA1     == Dict([k \in {"User A"} |-> Green1])
DocA2B    == Dict([k \in {"User A", "Preset B"} |-> IF k = "User A" THEN Green2 ELSE Red])
DocBadKey == Dict([k \in {"User A", "username"} |-> Green1])
DocBadVal == Dict([k \in {"Preset B"} |-> Scalar(1)])

PayloadLines ==
    {Dumps(d) : d \in {DocA1, DocA2B, DocBadKey, DocBadVal}}
        \cup {<<LB, Ent("Preset B", Red)>>, <<RB>>, <<Val(Scalar(1))>>}

SerialLines ==
    PayloadLines \cup {EndLine, ImportLine, WriteLine("user_presets.json"), WriteLine("presets.json")}

SerialTargets == {"/user_presets.json", "/presets.json"}
SerialPaths == SerialTargets \cup {TmpPath(p) : p \in SerialTargets}

SerialInit ==
    /\ WriterIdle
    /\ ReceiverIdle
    /\ h_stream = <<>> /\ h_transfer = NoTransfer /\ l_logs = {} /\ l_boots = 0
    /\ BootIdle
    /\ MergeIdle
    /\ s_mode = "idle" /\ s_filename = "" /\ s_file_lines = <<>>
    /\ s_line = <<>> /\ s_out = <<>>
    /\ s_open = 0
    /\ s_fx = <<>> /\ s_leds = LedsReleased /\ s_indicator = IndicatorOff
    /\ \E up \in {Absent, FileOf(Dumps(DocA1) \o <<NL>>)} :
          /\ fs = [p \in SerialPaths |-> IF p = "/user_presets.json" THEN up ELSE Absent]
          /\ s_user_presets = IF up.exists THEN Loads(up.text).val ELSE EmptyDict

SerialNext ==
    \/ \E line \in SerialLines : CmdWriteFile(line) /\ SerialRest
    \/ \E line \in SerialLines : CmdImportUser(line) /\ SerialRest
    \/ \E line \in SerialLines : CmdUnknown(line) /\ SerialRest
    \/ \E line \in SerialLines : WritePayload(line) /\ SerialRest
    \/ \E line \in SerialLines, fault \in SerialFaults : WriteEnd(line, fault) /\ SerialRest
    \/ \E line \in SerialLines : MergePayload(line) /\ SerialRest
    \/ \E line \in SerialLines, fault \in SerialFaults : MergeEnd(line, fault) /\ SerialRest

(***************************************************************************)
(* SpecSession: the three transfer modes over a small set of lines, with   *)
(* every failure the handlers catch.  /user_presets.json starts absent or  *)
(* holding a document the validator rejects (the boot-time merge can leave *)
(* one), so that an IMPORTUSER over it is rejected.                        *)
(***************************************************************************)
SessionLines ==
    {EndLine, ImportLine, WriteLine("user_presets.json"), WriteLine("code.py"),
     Dumps(DocA1)}

SessionTargets == {"/user_presets.json", "/code.py"}
SessionPaths == SessionTargets \cup {TmpPath("/user_presets.json")}

SessionInit ==
    /\ WriterIdle
    /\ ReceiverIdle
    /\ h_stream = <<>> /\ h_transfer = NoTransfer /\ l_logs = {} /\ l_boots = 0
    /\ BootIdle
    /\ MergeIdle
    /\ s_mode = "idle" /\ s_filename = "" /\ s_file_lines = <<>>
    /\ s_line = <<>> /\ s_out = <<>>
    /\ s_open = 0
    /\ s_fx = <<>> /\ s_leds = LedsReleased /\ s_indicator = IndicatorOff
    /\ \E up \in {Absent, FileOf(Dumps(DocBadVal) \o <<NL>>)} :
          /\ fs = [p \in SessionPaths |-> IF p = "/user_presets.json" THEN up ELSE Absent]
          /\ s_user_presets = IF up.exists THEN Loads(up.text).val ELSE EmptyDict

SessionNext ==
    \/ \E line \in SessionLines : CmdWriteFile(line) /\ SerialRest
    \/ \E line \in SessionLines, fault \in {"none", "open"} :
          CmdWriteFileStream(line, fault) /\ SerialRest
    \/ \E line \in SessionLines : CmdImportUser(line) /\ SerialRest
    \/ \E line \in SessionLines : CmdUnknown(line) /\ SerialRest
    \/ \E line \in SessionLines : WritePayload(line) /\ SerialRest
    \/ \E line \in SessionLines, fault \in SerialFaults : WriteEnd(line, fault) /\ SerialRest
    \/ \E line \in SessionLines, fault \in SerialFaults : WriteEndPlain(line, fault) /\ SerialRest
    \/ \E line \in SessionLines : MergePayload(line) /\ SerialRest
    \/ \E line \in SessionLines, fault \in SerialFaults : MergeEnd(line, fault) /\ SerialRest
    \/ \E line \in SessionLines, fault \in StreamFaults : StreamPayload(line, fault) /\ SerialRest
    \/ \E line \in SessionLines, fault \in EndFaults, released \in BOOLEAN :
          StreamEnd(line, fault, released) /\ SerialRest

(***************************************************************************)
(* SpecTransfer: the session of SpecSession seen from the host as well.    *)
(* h_transfer records the transfer the host is in: it begins when a        *)
(* WRITEFILE: or IMPORTUSER line is dispatched in Idle and ends with the   *)
(* host's END line, whatever the device made of the lines in between.      *)
(***************************************************************************)
Begun(kind, path) ==
    [open |-> TRUE, kind |-> kind, before |-> fs[path], leds |-> <<s_leds[0], s_leds[1]>>]

Track ==
    h_transfer' =
        IF s_mode = "idle" /\ IsWriteLine(s_line') THEN Begun("write", FileNameOf(s_line'))
        ELSE IF s_mode = "idle" /\ s_line' = ImportLine THEN Begun("import", "/user_presets.json")
        ELSE IF s_line' = EndLine THEN NoTransfer
        ELSE h_transfer

TransferRest == UNCHANGED <<store_vars, merge_vars, boot_vars, receive_vars, h_stream, log_vars>> /\ Track

OldCode == <<Word("pass"), NL>>

TransferInit ==
    /\ WriterIdle
    /\ ReceiverIdle
    /\ h_stream = <<>> /\ h_transfer = NoTransfer /\ l_logs = {} /\ l_boots = 0
    /\ BootIdle
    /\ MergeIdle
    /\ s_mode = "idle" /\ s_filename = "" /\ s_file_lines = <<>>
    /\ s_line = <<>> /\ s_out = <<>>
    /\ s_open = 0
    /\ s_fx = <<>> /\ s_leds = LedsReleased /\ s_indicator = IndicatorOff
    /\ \E up \in {Absent, FileOf(Dumps(DocA1) \o <<NL>>)}, code \in {Absent, FileOf(OldCode)} :
          /\ fs = [p \in SessionPaths |-> IF p = "/user_presets.json" THEN up
                                          ELSE IF p = "/code.py" THEN code ELSE Absent]
          /\ s_user_presets = IF up.exists THEN Loads(up.text).val ELSE EmptyDict

TransferNext ==
    \/ \E line \in SessionLines : CmdWriteFile(line) /\ TransferRest
    \/ \E line \in SessionLines, fault \in {"none", "open"} :
          CmdWriteFileStream(line, fault) /\ TransferRest
    \/ \E line \in SessionLines : CmdImportUser(line) /\ TransferRest
    \/ \E line \in SessionLines : CmdUnknown(line) /\ TransferRest
    \/ \E line \in SessionLines : WritePayload(line) /\ TransferRest
    \/ \E line \in SessionLines, fault \in SerialFaults : WriteEnd(line, fault) /\ TransferRest
    \/ \E line \in SessionLines, fault \in SerialFaults : WriteEndPlain(line, fault) /\ TransferRest
    \/ \E line \in SessionLines : MergePayload(line) /\ TransferRest
    \/ \E line \in SessionLines, fault \in SerialFaults : MergeEnd(line, fault) /\ TransferRest
    \/ \E line \in SessionLines, fault \in StreamFaults : StreamPayload(line, fault) /\ TransferRest
    \/ \E line \in SessionLines, fault \in EndFaults, released \in BOOLEAN :
          StreamEnd(line, fault, released) /\ TransferRest

(***************************************************************************)
(* boot.py: check_boot_loop and process_firmware_updates, one filesystem   *)
(* call per step, so that power can be lost between any two calls.  A      *)
(* target file holds "old" (its content before the update), "new" (the     *)
(* staged content, or the merge of it), "partial" (opened for writing and  *)
(* not yet completely written) or "lost" (removed and not replaced).  The  *)
(* failures are those of applying a file; the bookkeeping calls (flag,     *)
(* counter, rmdir) succeed whenever the filesystem allows them.            *)
(***************************************************************************)
StagedNames == {"config.json", "code.py", "utils.py"}
FileOrder == <<"config.json", "code.py", "utils.py">>

\* os.listdir('/updates')
ListDir(names) == SelectSeq(FileOrder, LAMBDA n : n \in names)

\* filename.lower().endswith('.json') and ('config' in ... or 'preset' in ...)
IsConfigName(filename) ==
    LET l == Lower(Chars(filename)) IN
    /\ EndsWith(l, <<".","j","s","o","n">>)
    /\ \/ Contains(l, <<"c","o","n","f","i","g">>)
       \/ Contains(l, <<"p","r","e","s","e","t">>)

\* the cap on update attempts
MaxRetries == 3

\* the locals of a boot before its first statement
BootLocals ==
    /\ b_files' = <<>> /\ b_i' = 0 /\ b_count' = 0 /\ b_success' = 0
    /\ b_failed' = {} /\ b_recovered' = FALSE

BootDisk == <<b_flag, b_retry, b_dir, b_staged, b_target>>

\* check_boot_loop: the root listing decides between recovery and update
CheckBootLoop ==
    /\ b_pc = "start"
    /\ b_pc' = IF b_flag THEN "rec_flag" ELSE "p_check"
    /\ b_recovered' = b_flag
    /\ UNCHANGED <<BootDisk, b_files, b_i, b_count, b_success, b_failed, b_losses>>

\* recovery: os.remove('/updating.flag')
RecFlag ==
    /\ b_pc = "rec_flag"
    /\ b_flag' = FALSE
    /\ b_pc' = "rec_retry"
    /\ UNCHANGED <<b_retry, b_dir, b_staged, b_target, b_files, b_i, b_count,
                   b_success, b_failed, b_recovered, b_losses>>

\* mutant: recovery leaves the retry counter in place
RecRetry_KeepsCounter ==
    /\ b_pc = "rec_retry"
    /\ b_files' = IF b_dir THEN ListDir(b_staged) ELSE <<>>
    /\ b_i' = 1
    /\ b_pc' = IF b_dir THEN "rec_files" ELSE "done"
    /\ UNCHANGED <<b_flag, b_retry, b_dir, b_staged, b_target, b_count, b_success, b_failed,
                   b_recovered, b_losses>>

\* recovery: os.remove('/update_retry_count.txt'), then the listing of /updates
RecRetry ==
    /\ b_pc = "rec_retry"
    /\ b_retry' = 0
    /\ b_files' = IF b_dir THEN ListDir(b_staged) ELSE <<>>
    /\ b_i' = 1
    /\ b_pc' = IF b_dir THEN "rec_files" ELSE "done"
    /\ UNCHANGED <<b_flag, b_dir, b_staged, b_target, b_count, b_success, b_failed,
                   b_recovered, b_losses>>

\* recovery: os.remove(f'/updates/{filename}')
RecRemove ==
    /\ b_pc = "rec_files"
    /\ b_i <= Len(b_files)
    /\ b_staged' = b_staged \ {b_files[b_i]}
    /\ b_i' = b_i + 1
    /\ UNCHANGED <<b_pc, b_flag, b_retry, b_dir, b_target, b_files, b_count, b_success,
                   b_failed, b_recovered, b_losses>>

\* recovery: os.rmdir('/updates')
RecRmdir ==
    /\ b_pc = "rec_files"
    /\ b_i > Len(b_files)
    /\ b_dir' = FALSE
    /\ b_pc' = "done"
    /\ UNCHANGED <<b_flag, b_retry, b_staged, b_target, b_files, b_i, b_count, b_success,
                   b_failed, b_recovered, b_losses>>

\* process_firmware_updates: is there an /updates folder, and what is in it
ProcCheck ==
    /\ b_pc = "p_check"
    /\ b_files' = IF b_dir THEN ListDir(b_staged) ELSE <<>>
    /\ b_pc' = IF ~b_dir THEN "done"
               ELSE IF b_staged = {} THEN "p_empty" ELSE "p_count"
    /\ UNCHANGED <<BootDisk, b_i, b_count, b_success, b_failed, b_recovered, b_losses>>

\* the empty /updates folder is removed
ProcEmpty ==
    /\ b_pc = "p_empty"
    /\ b_dir' = FALSE
    /\ b_pc' = "done"
    /\ UNCHANGED <<b_flag, b_retry, b_staged, b_target, b_files, b_i, b_count, b_success,
                   b_failed, b_recovered, b_losses>>

\* mutant: the incremented count is saved before it is tested against the cap
ProcCount_SavesFirst ==
    /\ b_pc = "p_count"
    /\ b_count' = b_retry + 1
    /\ b_retry' = b_retry + 1
    /\ b_i' = 1
    /\ b_pc' = IF b_retry + 1 > MaxRetries THEN "cap_files" ELSE "p_save"
    /\ UNCHANGED <<b_flag, b_dir, b_staged, b_target, b_files, b_success, b_failed,
                   b_recovered, b_losses>>

\* retry_count = <the counter file, else 0> + 1; above the cap the update is given up
ProcCount ==
    /\ b_pc = "p_count"
    /\ b_count' = b_retry + 1
    /\ b_i' = 1
    /\ b_pc' = IF b_retry + 1 > MaxRetries THEN "cap_files" ELSE "p_save"
    /\ UNCHANGED <<BootDisk, b_files, b_success, b_failed, b_recovered, b_losses>>

\* giving up: os.remove of every staged file
CapRemove ==
    /\ b_pc = "cap_files"
    /\ b_i <= Len(b_files)
    /\ b_staged' = b_staged \ {b_files[b_i]}
    /\ b_i' = b_i + 1
    /\ UNCHANGED <<b_pc, b_flag, b_retry, b_dir, b_target, b_files, b_count, b_success,
                   b_failed, b_recovered, b_losses>>

\* giving up: os.rmdir('/updates')
CapRmdir ==
    /\ b_pc = "cap_files"
    /\ b_i > Len(b_files)
    /\ b_dir' = FALSE
    /\ b_pc' = "cap_retry"
    /\ UNCHANGED <<b_flag, b_retry, b_staged, b_target, b_files, b_i, b_count, b_success,
                   b_failed, b_recovered, b_losses>>

\* giving up: os.remove('/update_retry_count.txt')
CapRetry ==
    /\ b_pc = "cap_retry"
    /\ b_retry' = 0
    /\ b_pc' = "done"
    /\ UNCHANGED <<b_flag, b_dir, b_staged, b_target, b_files, b_i, b_count, b_success,
                   b_failed, b_recovered, b_losses>>

\* the retry count is saved
ProcSave ==
    /\ b_pc = "p_save"
    /\ b_retry' = b_count
    /\ b_pc' = "p_flag"
    /\ UNCHANGED <<b_flag, b_dir, b_staged, b_target, b_files, b_i, b_count, b_success,
                   b_failed, b_recovered, b_losses>>

\* /updating.flag is written
ProcFlag ==
    /\ b_pc = "p_flag"
    /\ b_flag' = TRUE
    /\ b_pc' = "apply"
    /\ UNCHANGED <<b_retry, b_dir, b_staged, b_target, b_files, b_i, b_count, b_success,
                   b_failed, b_recovered, b_losses>>

\* the file the apply loop is at
CurFile == b_files[b_i]
Applying == b_pc = "apply" /\ b_i <= Len(b_files)

\* mutant: a failure ends the batch
FileFailed_Aborts ==
    /\ b_failed' = b_failed \cup {CurFile}
    /\ b_i' = Len(b_files) + 1
    /\ b_pc' = "apply"

\* the except block of the loop: failed_files.append(filename)
FileFailed ==
    /\ b_failed' = b_failed \cup {CurFile}
    /\ b_i' = b_i + 1
    /\ b_pc' = "apply"

MergeOutcomes == {"merged", "failed", "failed_lost"}

\* a config or preset file goes through merge_config_file: True, False, or
\* False with the target removed by the rename fallback
ApplyMerge(outcome) ==
    /\ Applying
    /\ IsConfigName(CurFile)
    /\ CASE outcome = "merged" ->
              /\ b_target' = [b_target EXCEPT ![CurFile] = "new"]
              /\ b_pc' = "unstage"
              /\ UNCHANGED <<b_i, b_failed>>
         [] outcome = "failed" ->
              /\ FileFailed
              /\ UNCHANGED b_target
         [] outcome = "failed_lost" ->
              /\ FileFailed
              /\ b_target' = [b_target EXCEPT ![CurFile] = "lost"]
    /\ UNCHANGED <<b_flag, b_retry, b_dir, b_staged, b_files, b_count, b_success,
                   b_recovered, b_losses>>

\* any other file is copied: open(target_path, 'wb') truncates the target
CopyOpen(fault) ==
    /\ Applying
    /\ ~IsConfigName(CurFile)
    /\ IF fault
       THEN /\ FileFailed
            /\ UNCHANGED b_target
       ELSE /\ b_target' = [b_target EXCEPT ![CurFile] = "partial"]
            /\ b_pc' = "copy_write"
            /\ UNCHANGED <<b_i, b_failed>>
    /\ UNCHANGED <<b_flag, b_retry, b_dir, b_staged, b_files, b_count, b_success,
                   b_recovered, b_losses>>

\* target_file.write(...) up to the last chunk, and the close
CopyWrite(fault) ==
    /\ b_pc = "copy_write"
    /\ IF fault
       THEN /\ FileFailed
            /\ UNCHANGED b_target
       ELSE /\ b_target' = [b_target EXCEPT ![CurFile] = "new"]
            /\ b_pc' = "unstage"
            /\ UNCHANGED <<b_i, b_failed>>
    /\ UNCHANGED <<b_flag, b_retry, b_dir, b_staged, b_files, b_count, b_success,
                   b_recovered, b_losses>>

\* success_count += 1; os.remove(update_path)
Unstage ==
    /\ b_pc = "unstage"
    /\ b_success' = b_success + 1
    /\ b_staged' = b_staged \ {CurFile}
    /\ b_i' = b_i + 1
    /\ b_pc' = "apply"
    /\ UNCHANGED <<b_flag, b_retry, b_dir, b_target, b_files, b_count, b_failed,
                   b_recovered, b_losses>>

\* after the loop: clean up only if all files were updated
ApplyDone ==
    /\ b_pc = "apply"
    /\ b_i > Len(b_files)
    /\ b_pc' = IF b_success = Len(b_files) THEN "p_rmdir" ELSE "p_flag_rm"
    /\ UNCHANGED <<BootDisk, b_files, b_i, b_count, b_success, b_failed, b_recovered, b_losses>>

\* os.rmdir('/updates')
ProcRmdir ==
    /\ b_pc = "p_rmdir"
    /\ b_dir' = FALSE
    /\ b_pc' = "p_retry_rm"
    /\ UNCHANGED <<b_flag, b_retry, b_staged, b_target, b_files, b_i, b_count, b_success,
                   b_failed, b_recovered, b_losses>>

\* mutant: full success leaves the retry counter in place
ProcRetryRm_KeepsCounter ==
    /\ b_pc = "p_retry_rm"
    /\ b_pc' = "p_flag_rm"
    /\ UNCHANGED <<BootDisk, b_files, b_i, b_count, b_success, b_failed, b_recovered, b_losses>>

\* os.remove('/update_retry_count.txt')
ProcRetryRm ==
    /\ b_pc = "p_retry_rm"
    /\ b_retry' = 0
    /\ b_pc' = "p_flag_rm"
    /\ UNCHANGED <<b_flag, b_dir, b_staged, b_target, b_files, b_i, b_count, b_success,
                   b_failed, b_recovered, b_losses>>

\* mutant: the flag is left in place whatever the batch did
ProcFlagRm_KeepsFlag ==
    /\ b_pc = "p_flag_rm"
    /\ b_pc' = IF b_success > 0 THEN "p_reset" ELSE "done"
    /\ UNCHANGED <<BootDisk, b_files, b_i, b_count, b_success, b_failed, b_recovered, b_losses>>

\* mutant: the flag is removed whatever the batch did
ProcFlagRm_Always ==
    /\ b_pc = "p_flag_rm"
    /\ b_flag' = FALSE
    /\ b_pc' = IF b_success > 0 THEN "p_reset" ELSE "done"
    /\ UNCHANGED <<b_retry, b_dir, b_staged, b_target, b_files, b_i, b_count, b_success,
                   b_failed, b_recovered, b_losses>>

\* the flag is removed only if at least one file succeeded; the device then
\* resets, and otherwise boot.py runs on with the flag in place
ProcFlagRm ==
    /\ b_pc = "p_flag_rm"
    /\ b_flag' = IF b_success > 0 THEN FALSE ELSE b_flag
    /\ b_pc' = IF b_success > 0 THEN "p_reset" ELSE "done"
    /\ UNCHANGED <<b_retry, b_dir, b_staged, b_target, b_files, b_i, b_count, b_success,
                   b_failed, b_recovered, b_losses>>

\* microcontroller.reset()
Reset ==
    /\ b_pc = "p_reset"
    /\ b_pc' = "start"
    /\ BootLocals
    /\ UNCHANGED <<BootDisk, b_losses>>

\* boot.py has finished; the device is restarted later
Reboot ==
    /\ b_pc = "done"
    /\ b_pc' = "start"
    /\ BootLocals
    /\ UNCHANGED <<BootDisk, b_losses>>

\* power is lost while boot.py runs: the disk stays as it is
PowerLoss ==
    /\ b_pc \notin {"start", "done"}
    /\ b_losses < MaxLosses
    /\ b_losses' = b_losses + 1
    /\ b_pc' = "start"
    /\ BootLocals
    /\ UNCHANGED BootDisk

(***************************************************************************)
(* SpecBoot: boots after files were staged, each apply succeeding or       *)
(* failing, with at most MaxLosses power losses; nothing new is staged.    *)
(***************************************************************************)
BootRest == UNCHANGED <<fs, store_vars, merge_vars, serial_vars, receive_vars, hist_vars, log_vars>>

BootInit ==
    /\ WriterIdle
    /\ ReceiverIdle
    /\ h_stream = <<>> /\ h_transfer = NoTransfer /\ l_logs = {} /\ l_boots = 0
    /\ MergeIdle
    /\ SessionIdle
    /\ fs = <<>>
    /\ b_pc = "start"
    /\ b_flag = FALSE /\ b_retry = 0 /\ b_dir = TRUE
    /\ b_staged \in (SUBSET StagedNames) \ {{}}
    /\ b_target = [n \in StagedNames |-> "old"]
    /\ b_files = <<>> /\ b_i = 0 /\ b_count = 0 /\ b_success = 0
    /\ b_failed = {} /\ b_recovered = FALSE
    /\ b_losses = 0

BootNext ==
    \/ CheckBootLoop /\ BootRest
    \/ RecFlag /\ BootRest
    \/ RecRetry /\ BootRest
    \/ RecRemove /\ BootRest
    \/ RecRmdir /\ BootRest
    \/ ProcCheck /\ BootRest
    \/ ProcEmpty /\ BootRest
    \/ ProcCount /\ BootRest
    \/ CapRemove /\ BootRest
    \/ CapRmdir /\ BootRest
    \/ CapRetry /\ BootRest
    \/ ProcSave /\ BootRest
    \/ ProcFlag /\ BootRest
    \/ \E outcome \in MergeOutcomes : ApplyMerge(outcome) /\ BootRest
    \/ \E fault \in BOOLEAN : CopyOpen(fault) /\ BootRest
    \/ \E fault \in BOOLEAN : CopyWrite(fault) /\ BootRest
    \/ Unstage /\ BootRest
    \/ ApplyDone /\ BootRest
    \/ ProcRmdir /\ BootRest
    \/ ProcRetryRm /\ BootRest
    \/ ProcFlagRm /\ BootRest
    \/ Reset /\ BootRest
    \/ Reboot /\ BootRest
    \/ PowerLoss /\ BootRest

(***************************************************************************)
(* process_firmware_updates: the update log.  Every boot that finds an     *)
(* /updates folder picks its log file from the root listing before doing   *)
(* anything else.  A log file is identified by the number n its name was   *)
(* formatted from, /update_log_<n:03d>.txt.                                *)
(***************************************************************************)
\* the number of logs kept
KeepLogs == 12

\* int(filename[11:14]): the first three digits after "update_log_"
RECURSIVE LogNum(_)
LogNum(n) == IF n < 1000 THEN n ELSE LogNum(n \div 10)

MaxOf(S) == CHOOSE x \in S : \A y \in S : y <= x
MinOf(S) == CHOOSE x \in S : \A y \in S : x <= y

\* existing_logs, as a set of numbers
ExistingLogs == {LogNum(n) : n \in l_logs}

\* log_number = existing_logs[-1] + 1, or 1 when there is no log
LogNumber == IF l_logs = {} THEN 1 ELSE MaxOf(ExistingLogs) + 1

\* the log setup of one boot: with 12 or more logs the file named after the
\* lowest number is removed (a failure of the removal is passed over), then
\* the first write_log creates, or appends to, the file named after
\* log_number
SetupLog ==
    LET kept == IF Cardinality(l_logs) >= KeepLogs
                THEN l_logs \ {MinOf(ExistingLogs)} ELSE l_logs
    IN /\ l_boots < MaxBoots
       /\ l_boots' = l_boots + 1
       /\ l_logs' = kept \cup {LogNumber}

LogRest == UNCHANGED <<fs, store_vars, merge_vars, serial_vars, boot_vars, receive_vars, hist_vars>>

LogInit ==
    /\ WriterIdle
    /\ ReceiverIdle
    /\ h_stream = <<>> /\ h_transfer = NoTransfer /\ l_logs = {} /\ l_boots = 0
    /\ BootIdle
    /\ MergeIdle
    /\ SessionIdle
    /\ fs = <<>>

LogNext ==
    \/ SetupLog /\ LogRest

(***************************************************************************)
(* SpecStore: the two writers under resets and failing filesystem calls.   *)
(***************************************************************************)
StoreInit ==
    /\ WriterIdle
    /\ ReceiverIdle
    /\ h_stream = <<>> /\ h_transfer = NoTransfer /\ l_logs = {} /\ l_boots = 0
    /\ BootIdle
    /\ MergeIdle
    /\ SessionIdle
    /\ fs \in {f \in [StorePaths -> {Absent} \cup {FileOf(Dumps(d) \o <<NL>>) : d \in StoreDocs}] :
                 \A p \in StorePaths \ StoreTargets : f[p] = Absent}

\* a writer step touches neither merge bookkeeping nor the serial session
StoreRest == UNCHANGED <<merge_vars, serial_vars, boot_vars, receive_vars, hist_vars, log_vars>>

StoreNext ==
    \/ \E kind \in {"serial", "boot"}, path \in StoreTargets, data \in StoreDocs :
          WStart(kind, path, data) /\ StoreRest
    \/ \E fault \in BOOLEAN : SwOpen(fault) /\ StoreRest
    \/ \E fault \in BOOLEAN, n \in 0..Len(w_text) : SwWrite(fault, n) /\ StoreRest
    \/ \E fault \in BOOLEAN : SwNl(fault) /\ StoreRest
    \/ SwRemove /\ StoreRest
    \/ \E fault \in BOOLEAN : SwRename(fault) /\ StoreRest
    \/ SwCleanup /\ StoreRest
    \/ \E fault \in BOOLEAN : BwOpen(fault) /\ StoreRest
    \/ \E fault \in BOOLEAN, n \in 0..Len(w_text) : BwWrite(fault, n) /\ StoreRest
    \/ \E fault \in BOOLEAN : BwVerify(fault) /\ StoreRest
    \/ \E oserror \in BOOLEAN : BwRename(oserror) /\ StoreRest
    \/ BwFbRemove /\ StoreRest
    \/ \E fault \in BOOLEAN : BwFbRename(fault) /\ StoreRest
    \/ BwCleanup /\ StoreRest
    \/ \E button_name \in {"GREEN_FRET"}, pin_name \in 1..MaxVal :
          SavePinStart(button_name, pin_name) /\ StoreRest
    \/ \E fault \in BOOLEAN : PwOpen(fault) /\ StoreRest
    \/ \E fault \in BOOLEAN, n \in 0..Len(w_text) : PwWrite(fault, n) /\ StoreRest
    \/ PwReset /\ StoreRest
    \/ WReset /\ StoreRest

vars == <<fs, store_vars, merge_vars, serial_vars, boot_vars, receive_vars, hist_vars, log_vars>>

SpecStore == StoreInit /\ [][StoreNext]_vars

SpecMerge == MergeInit /\ [][MergeNext]_vars

SpecSerial == SerialInit /\ [][SerialNext]_vars

SpecSession == SessionInit /\ [][SessionNext]_vars

SpecBoot == BootInit /\ [][BootNext]_vars

SpecPreview == PreviewInit /\ [][PreviewNext]_vars

SpecConfig == ConfigInit /\ [][ConfigNext]_vars

SpecRead == ReadInit /\ [][ReadNext]_vars

SpecReceive == ReceiveInit /\ [][ReceiveNext]_vars

SpecTransfer == TransferInit /\ [][TransferNext]_vars

SpecLogs == LogInit /\ [][LogNext]_vars

(***************************************************************************)
(* C1: a write interrupted by a reset at any instant before the final      *)
(* rename leaves the target with its complete pre-write content, after the *)
(* rename with the complete new content; the target is at no instant       *)
(* missing, partial or truncated.                                          *)
(***************************************************************************)
C1_Atomicity ==
    (w_pc # "idle" /\ w_kind \in {"serial", "boot"}) =>
        fs[w_path] = (IF w_renamed THEN NewFile ELSE w_pre)

(***************************************************************************)
(* C2: a write that fails at any stage reports failure, leaves no          *)
(* <path>.tmp behind, and leaves the target with its pre-write content.    *)
(***************************************************************************)
C2_FailureLeavesTarget ==
    (w_pc = "done" /\ w_failed # "none" /\ w_kind \in {"serial", "boot"}) =>
        /\ w_result = "fail"
        /\ ~fs[TmpPath(w_path)].exists
        /\ fs[w_path] = w_pre

(***************************************************************************)
(* The boot-time merge (SpecMerge).  TargetDoc is the document the target  *)
(* file holds, read back from the filesystem.                              *)
(***************************************************************************)
TargetDoc == LoadFile(fs, m_target).val
Merged == m_ret = "true"

(***************************************************************************)
(* C3: user-setting preservation.  After a merge, every key present in     *)
(* both the existing document and the update, other than the metadata keys *)
(* and `presets`, has the existing document's value.                       *)
(***************************************************************************)
C3_UserSettingPreserved ==
    Merged =>
        \A k \in (DOMAIN m_existing.m \cap DOMAIN m_update.m) \ (MetaKeys \cup {"presets"}) :
            HasKey(TargetDoc, k) /\ TargetDoc.m[k] = m_existing.m[k]

C3_Witness ==
    /\ Merged
    /\ HasKey(m_existing, "led_color") /\ HasKey(m_update, "led_color")
    /\ m_existing.m["led_color"] # m_update.m["led_color"]

(***************************************************************************)
(* C4: new-key admission.  After a merge, every key of the update that the *)
(* existing document lacks is present with the update's value, and every   *)
(* key of the existing document that the update lacks is still present     *)
(* with its existing value.                                                *)
(***************************************************************************)
C4_NewKeyAdmitted ==
    Merged =>
        /\ \A k \in DOMAIN m_update.m \ DOMAIN m_existing.m :
              HasKey(TargetDoc, k) /\ TargetDoc.m[k] = m_update.m[k]
        /\ \A k \in DOMAIN m_existing.m \ DOMAIN m_update.m :
              HasKey(TargetDoc, k) /\ TargetDoc.m[k] = m_existing.m[k]

C4_Witness ==
    /\ Merged
    /\ DOMAIN m_update.m \ DOMAIN m_existing.m # {}
    /\ DOMAIN m_existing.m \ DOMAIN m_update.m # {}

(***************************************************************************)
(* C5: metadata refresh.  After a merge, every metadata key present in the *)
(* update has the update's value, whether or not the existing document had *)
(* the key.                                                                *)
(***************************************************************************)
C5_MetadataRefreshed ==
    Merged =>
        \A k \in MetaKeys \cap DOMAIN m_update.m :
            HasKey(TargetDoc, k) /\ TargetDoc.m[k] = m_update.m[k]

C5_Witness ==
    /\ Merged
    /\ HasKey(m_existing, "version") /\ HasKey(m_update, "version")
    /\ m_existing.m["version"] # m_update.m["version"]

(***************************************************************************)
(* C6: preset non-clobber.  After a merge into a preset file in which both *)
(* sides hold a mapping under `presets`, every existing preset name keeps  *)
(* its existing definition, every name only the update has is added with   *)
(* the update's definition, and no existing name is removed.               *)
(***************************************************************************)
BothHavePresetMaps ==
    /\ IsPresetFile(m_target)
    /\ HasKey(m_existing, "presets") /\ IsDict(m_existing.m["presets"])
    /\ HasKey(m_update, "presets") /\ IsDict(m_update.m["presets"])

C6_PresetNonClobber ==
    (Merged /\ BothHavePresetMaps) =>
        LET ex == m_existing.m["presets"]
            up == m_update.m["presets"]
        IN /\ HasKey(TargetDoc, "presets") /\ IsDict(TargetDoc.m["presets"])
           /\ \A n \in DOMAIN ex.m :
                 HasKey(TargetDoc.m["presets"], n) /\ TargetDoc.m["presets"].m[n] = ex.m[n]
           /\ \A n \in DOMAIN up.m \ DOMAIN ex.m :
                 HasKey(TargetDoc.m["presets"], n) /\ TargetDoc.m["presets"].m[n] = up.m[n]

C6_Witness ==
    /\ Merged /\ BothHavePresetMaps
    /\ \E n \in DOMAIN m_existing.m["presets"].m \cap DOMAIN m_update.m["presets"].m :
          m_existing.m["presets"].m[n] # m_update.m["presets"].m[n]
    /\ DOMAIN m_update.m["presets"].m \ DOMAIN m_existing.m["presets"].m # {}

(***************************************************************************)
(* C7: merge idempotence.  Merging the update into the result of merging   *)
(* it once gives that same result: when two merges of the same staged      *)
(* update succeed in a row, the second leaves the document the first       *)
(* produced (the document the second call loaded as existing).             *)
(***************************************************************************)
C7_MergeIdempotent ==
    (m_prev_ret = "true" /\ Merged) => TargetDoc = m_existing

C7_Witness ==
    /\ m_prev_ret = "true" /\ Merged
    /\ BothHavePresetMaps
    /\ m_existing # m_update
    /\ DOMAIN m_update.m["presets"].m # {}

(***************************************************************************)
(* The serial session (SpecSerial).  A step that handles END is described  *)
(* by the state before it (the buffered payload, the file on disk) and the *)
(* state after it.                                                         *)
(***************************************************************************)
UserPresetsPath == "/user_presets.json"
PayloadDoc == Loads(JoinLines(s_file_lines))
DiskPresets ==
    LET l == LoadFile(fs, UserPresetsPath) IN IF l.ok THEN l.val ELSE EmptyDict
ImportEnds == s_mode = "merge_user" /\ s_line' = EndLine
ImportSucceeds == ImportEnds /\ s_out' = <<Reply("Merged (atomic)")>>

(***************************************************************************)
(* C8: IMPORTUSER merge preserves user data.  After an IMPORTUSER transfer *)
(* that completes successfully, every preset name /user_presets.json held  *)
(* before the transfer still has its pre-transfer definition, also when    *)
(* the payload defines the name differently, and every name only the       *)
(* payload has is added with the payload's definition.                     *)
(***************************************************************************)
C8_ImportPreservesExisting ==
    [][ImportSucceeds =>
          LET after == LoadFile(fs', UserPresetsPath).val IN
          /\ \A n \in DOMAIN DiskPresets.m : HasKey(after, n) /\ after.m[n] = DiskPresets.m[n]
          /\ \A n \in DOMAIN PayloadDoc.val.m \ DOMAIN DiskPresets.m :
                HasKey(after, n) /\ after.m[n] = PayloadDoc.val.m[n]]_vars

(***************************************************************************)
(* C9: invalid preset structure is rejected over serial.  When a           *)
(* WRITEFILE:user_presets.json or IMPORTUSER transfer ends and its         *)
(* resulting document (the payload; for IMPORTUSER the payload laid over   *)
(* the file on disk) has a top-level key that neither starts with "user "  *)
(* nor contains "preset", case-insensitively, or a top-level value that is *)
(* not a mapping, then nothing is written, an ERROR line is emitted,       *)
(* /user_presets.json and the in-memory user_presets are unchanged and     *)
(* the session is Idle again.                                              *)
(***************************************************************************)
BadShape(doc) ==
    \E k \in DOMAIN doc.m :
        \/ ~IsDict(doc.m[k])
        \/ /\ SubSeq(Lower(Chars(k)), 1, 5) # <<"u","s","e","r"," ">>
           /\ ~Contains(Lower(Chars(k)), <<"p","r","e","s","e","t">>)

InvalidTransferEnds ==
    /\ s_line' = EndLine
    /\ s_filename = UserPresetsPath
    /\ PayloadDoc.ok /\ IsDict(PayloadDoc.val)
    /\ \/ s_mode = "write" /\ BadShape(PayloadDoc.val)
       \/ /\ s_mode = "merge_user"
          /\ IsDict(DiskPresets)
          /\ BadShape(Dict([k \in DOMAIN DiskPresets.m \cup DOMAIN PayloadDoc.val.m |->
                              IF k \in DOMAIN PayloadDoc.val.m
                              THEN PayloadDoc.val.m[k] ELSE DiskPresets.m[k]]))

C9_InvalidPresetsRejected ==
    [][InvalidTransferEnds =>
          /\ fs' = fs
          /\ s_user_presets' = s_user_presets
          /\ \E i \in DOMAIN s_out' : s_out'[i].kind = "ERROR"
          /\ s_mode' = "idle"]_vars

C9_Witness ==
    /\ s_line = EndLine /\ s_mode = "idle"
    /\ s_out = <<Error("Invalid user_presets.json structure, merge rejected")>>
    /\ fs[UserPresetsPath].exists
    /\ s_user_presets = DocA1

(***************************************************************************)
(* C10: the preset structural validator guards every writer of a preset    *)
(* file.  Here for the boot-time merge: a merge_config_file call on a      *)
(* preset file that reports success has left in the file a document whose  *)
(* top-level keys all meet the preset-name convention and whose top-level  *)
(* values are all mappings.                                                *)
(***************************************************************************)
C10_ValidatorGuardsBootMerge ==
    (Merged /\ IsPresetFile(m_target)) => ~BadShape(TargetDoc)

(***************************************************************************)
(* The transfer session (SpecSession).                                     *)
(***************************************************************************)
InTransfer == s_mode \in {"write", "write_stream", "merge_user"}
EndHandled == InTransfer /\ s_line' = EndLine
ErrorEmitted == \E i \in DOMAIN s_out' : s_out'[i].kind = "ERROR"

(***************************************************************************)
(* C11: session cleanup after END.  After an END line is processed in      *)
(* Accumulate, Stream or Merge mode, whether the transfer succeeded or     *)
(* failed, the mode is Idle, the payload buffer is empty and the handle    *)
(* opened for the transfer has been closed.                                *)
(***************************************************************************)
C11_CleanupAfterEnd ==
    [][EndHandled =>
          /\ s_mode' = "idle"
          /\ s_file_lines' = <<>>
          /\ s_open' = IF s_mode = "write_stream" THEN s_open - 1 ELSE s_open]_vars

(***************************************************************************)
(* C12: guaranteed release on the error path.  Every step that takes the   *)
(* session from Stream mode to Idle on a line other than END (a payload    *)
(* write error, or an exception caught by the top-level handler) closes    *)
(* the open file handle.                                                   *)
(***************************************************************************)
C12_StreamErrorClosesHandle ==
    [][(s_mode = "write_stream" /\ s_mode' = "idle" /\ s_line' # EndLine) =>
          s_open' = s_open - 1]_vars

(***************************************************************************)
(* C13: errors reset the session.  Whenever an ERROR line is emitted for a *)
(* WRITEFILE or IMPORTUSER command, for a payload line or for END, the     *)
(* mode after that line is Idle and the payload buffer is empty.           *)
(***************************************************************************)
C13_ErrorsResetSession ==
    [][(ErrorEmitted /\ (InTransfer \/ IsWriteLine(s_line') \/ s_line' = ImportLine)) =>
          s_mode' = "idle" /\ s_file_lines' = <<>>]_vars

(***************************************************************************)
(* C14: SessionState invariant.  In every state handle_serial returns, if  *)
(* the mode is Idle then file_lines is empty, so holds neither buffered    *)
(* lines nor a file handle; file_lines is populated only in Accumulate,    *)
(* Stream or Merge mode.                                                   *)
(***************************************************************************)
C14_IdleHasEmptyBuffer ==
    s_mode = "idle" => s_file_lines = <<>>

C14_Witness ==
    /\ s_mode = "idle"
    /\ s_line # EndLine
    /\ s_out = <<Error("Stream write error")>>
    /\ fs["/code.py"].exists

(***************************************************************************)
(* The boot-time update (SpecBoot).                                        *)
(***************************************************************************)
RecoveryDone == b_pc = "done" /\ b_recovered
BatchDone == b_pc = "p_reset"
FullSuccess == BatchDone /\ b_success = Len(b_files)
PartialFailure == BatchDone /\ b_success > 0 /\ b_success < Len(b_files)

(***************************************************************************)
(* C15: boot-loop recovery.  A boot that starts with /updating.flag        *)
(* present, whatever the retry counter holds, applies no staged file, and  *)
(* when it has run the flag, the retry counter, the staging directory and  *)
(* every staged file are gone.                                             *)
(***************************************************************************)
C15_BootLoopRecovery ==
    /\ b_recovered => /\ b_pc \in {"rec_flag", "rec_retry", "rec_files", "done"}
                      /\ b_success = 0
    /\ RecoveryDone => ~b_flag /\ b_retry = 0 /\ ~b_dir /\ b_staged = {}

C15_Witness ==
    RecoveryDone /\ Len(b_files) > 0 /\ b_losses = 0

(***************************************************************************)
(* C16: retry cap.  While a staged file keeps failing and no power is      *)
(* lost, the update is attempted on three boots: a boot that starts with   *)
(* staged files left over and the retry counter at 1 or 2 goes on to the   *)
(* update step; only the boot that finds the counter at 3 discards them.   *)
(***************************************************************************)
C16_RetryCap ==
    [][(b_losses = 0 /\ b_pc = "start" /\ b_staged # {} /\ b_retry \in 1..(MaxRetries - 1))
          => b_pc' = "p_check"]_vars

(***************************************************************************)
(* C17: full success of a batch.  When every staged file was applied, the  *)
(* staging directory, the retry counter and the in-progress flag are all   *)
(* gone at the moment the device resets, and a boot that finds neither     *)
(* flag nor staging directory ends without touching the disk.              *)
(***************************************************************************)
C17_FullSuccess ==
    /\ [](FullSuccess => ~b_dir /\ b_retry = 0 /\ ~b_flag /\ b_staged = {})
    /\ [][(b_pc \in {"start", "p_check"} /\ ~b_flag /\ ~b_dir /\ b_losses' = b_losses)
             => b_pc' \in {"p_check", "done"} /\ UNCHANGED BootDisk]_vars

C17_Witness ==
    FullSuccess /\ Len(b_files) = 3 /\ b_count = 1

(***************************************************************************)
(* C18: partial failure of a batch.  As stated: when some but not all      *)
(* staged files were applied, the staging directory still exists and holds *)
(* exactly the files that failed, and the in-progress flag is in place.    *)
(***************************************************************************)
C18_PartialFailure_FlagKept ==
    PartialFailure => b_dir /\ b_staged = b_failed /\ b_flag

(***************************************************************************)
(* C18, amended: when some but not all staged files were applied, then at  *)
(* the reset that ends the batch the staging directory still exists and    *)
(* holds exactly the files that failed, the retry counter holds this       *)
(* boot's attempt number and the in-progress flag has been removed, so     *)
(* that the next boot goes to the update step; the update step lists       *)
(* exactly the files left in the staging directory.                        *)
(***************************************************************************)
C18_PartialFailure ==
    /\ PartialFailure => b_dir /\ b_staged = b_failed /\ ~b_flag /\ b_retry = b_count
    /\ (b_pc = "apply" /\ b_i = 1) => b_files = ListDir(b_staged) /\ b_files # <<>>

C18_Witness ==
    PartialFailure /\ b_count = 2

(***************************************************************************)
(* C19: bounded self-healing.  A boot that finds neither the in-progress   *)
(* flag nor the staging directory changes nothing, so the state it ends in *)
(* is the state the device stays in; that state has no retry counter.      *)
(***************************************************************************)
C19_SelfHealing ==
    (b_pc = "done" /\ ~b_flag /\ ~b_dir) => b_retry = 0

(***************************************************************************)
(* C20: power-failure safety.  When a boot has finished, a target file     *)
(* that was opened for copying and not completely written still has its    *)
(* staged source in the staging directory.                                 *)
(***************************************************************************)
C20_PowerFailureSafety ==
    b_pc = "done" => \A n \in StagedNames : b_target[n] = "partial" => n \in b_staged

(***************************************************************************)
(* C21: every writer of /config.json is reset-safe: after a hard reset at  *)
(* any instant of a write, /config.json holds either its complete previous *)
(* content or the complete new content.                                    *)
(***************************************************************************)
C21_ConfigResetSafe ==
    (w_pc = "reset" /\ w_path = "/config.json") =>
        fs["/config.json"] \in {w_pre, NewFile}

(***************************************************************************)
(* C22: a streamed write preserves content.  WRITEFILE: in Stream mode     *)
(* leaves the target empty, every payload line accepted afterwards is      *)
(* appended to it followed by one newline, and END changes nothing in it:  *)
(* after N payload lines and END the file holds exactly those lines in     *)
(* order.  As claimed, for every line other than END.                      *)
(***************************************************************************)
StreamStarts == s_mode = "idle" /\ s_mode' = "write_stream"
StreamContinues == s_mode = "write_stream" /\ s_mode' = "write_stream"
StreamCompletes == s_mode = "write_stream" /\ s_line' = EndLine /\ ~ErrorEmitted

C22_StreamPreservesContent ==
    [][/\ StreamStarts => fs'[s_filename'] = FileOf(<<>>)
       /\ StreamContinues =>
             fs'[s_filename] = FileOf(fs[s_filename].text \o s_line' \o <<NL>>)
       /\ StreamCompletes => fs' = fs]_vars

(***************************************************************************)
(* C22 as amended: the same for every payload line that is neither END nor *)
(* a PREVIEWLED: line.                                                     *)
(***************************************************************************)
C22_StreamPreservesPayload ==
    [][/\ StreamStarts => fs'[s_filename'] = FileOf(<<>>)
       /\ (StreamContinues /\ ~IsPreviewLine(s_line')) =>
             fs'[s_filename] = FileOf(fs[s_filename].text \o s_line' \o <<NL>>)
       /\ StreamCompletes => fs' = fs]_vars

\* a streamed transfer of two lines has been completed
C22_Witness ==
    /\ s_mode = "idle"
    /\ s_line = EndLine
    /\ s_out = <<Reply("File written (high-speed streaming)")>>
    /\ fs["/code.py"] = FileOf(ImportLine \o <<NL>> \o WriteLine("code.py") \o <<NL>>)

(***************************************************************************)
(* C29: a WRITEFILE: or IMPORTUSER line that arrives while a transfer is   *)
(* in progress is rejected: the transfer keeps its mode and target and the *)
(* line is added neither to the buffered lines nor to the file.            *)
(***************************************************************************)
C29_OverlapRejected ==
    [][(s_mode # "idle" /\ (IsWriteLine(s_line') \/ s_line' = ImportLine)) =>
          /\ UNCHANGED <<s_mode, s_filename>>
          /\ s_file_lines' = s_file_lines
          /\ fs' = fs]_vars

(***************************************************************************)
(* C30: PREVIEWLED is handled in every mode; it changes at most one LED    *)
(* and leaves the mode, the target path, the buffered lines, the open      *)
(* handle, the line count and the files as they were, whether or not the   *)
(* LED name and the colour are valid.                                      *)
(***************************************************************************)
C30_PreviewFrame ==
    [][IsPreviewLine(s_line') =>
          /\ UNCHANGED <<s_mode, s_filename, s_file_lines, s_open, fs, s_indicator>>
          /\ Cardinality({i \in LedPixels : s_leds'[i] # s_leds[i]}) <= 1]_vars

\* a preview that set the strum-up LED in the middle of a streamed transfer
C30_Witness ==
    /\ IsPreviewLine(s_line)
    /\ s_mode = "write_stream"
    /\ s_file_lines = <<Handle("/code.py"), Count(1)>>
    /\ s_leds[0] = <<0, 0, 255>>
    /\ s_leds[1] = IndicatorRed

(***************************************************************************)
(* C23: WRITEFILE:config.json.  When the payload parses and the write      *)
(* succeeds, /config.json holds the parsed document, the success line is   *)
(* written, then the LED strip, the buttons and the whammy input are       *)
(* deinitialised, and only then the device resets.  When parsing or the    *)
(* write fails there is no reset, and the END of a transfer to any other   *)
(* file never resets.                                                      *)
(***************************************************************************)
WriteEnds == s_mode = "write" /\ s_line' = EndLine
ResetCalled == \E i \in DOMAIN s_fx' : s_fx'[i].op = "reset"

C23_ConfigWriteThenReset ==
    [][/\ (WriteEnds /\ s_filename = "/config.json" /\ ~ErrorEmitted) =>
             /\ Loads(JoinLines(s_file_lines)).ok
             /\ fs'["/config.json"] =
                    FileOf(Dumps(Loads(JoinLines(s_file_lines)).val) \o <<NL>>)
             /\ s_out' = <<Reply("File written (atomic)")>>
             /\ Len(s_fx') = 4
             /\ s_fx'[1].op = "leds.deinit" /\ s_fx'[2].op = "buttons.deinit"
             /\ s_fx'[3].op = "whammy.deinit" /\ s_fx'[4].op = "reset"
             /\ \A i \in 1..4 : s_fx'[i].after = 1
       /\ (WriteEnds /\ s_filename = "/config.json" /\ ErrorEmitted) =>
             ~ResetCalled /\ s_mode' = "idle"
       /\ (WriteEnds /\ s_filename # "/config.json") => ~ResetCalled]_vars

\* a new document was written to /config.json and the device has reset
C23_Witness ==
    /\ s_line = EndLine
    /\ s_out = <<Reply("File written (atomic)")>>
    /\ Len(s_fx) = 4 /\ s_fx[4] = Fx("reset", TRUE, 1)
    /\ fs["/config.json"] = FileOf(Dumps(Dict([k \in {"version"} |-> Scalar(2)])) \o <<NL>>)

(***************************************************************************)
(* C25: exactly one terminal response.  A command line dispatched in Idle  *)
(* that starts no transfer gets exactly one result or ERROR line; a line   *)
(* that starts a transfer and its payload lines get none, and the END of   *)
(* the transfer gets exactly one: never zero, never two.                   *)
(***************************************************************************)
Terminal(r) ==
    \/ r.kind = "ERROR"
    \/ r.kind = "OK" /\ r.msg \notin {"WRITEFILE:READY", "STREAM:READY"}
TerminalCount == Cardinality({i \in DOMAIN s_out' : Terminal(s_out'[i])})

C25_OneTerminalResponse ==
    [][/\ (s_mode = "idle" /\ s_mode' = "idle") => TerminalCount = 1
       /\ (s_mode = "idle" /\ s_mode' # "idle") => TerminalCount = 0
       /\ EndHandled => TerminalCount = 1]_vars

(***************************************************************************)
(* C26: SAVEPIN.  PINDETECT:SAVED is written only when the pin has been    *)
(* saved to /config.json, and a reset follows it; a reset is preceded by   *)
(* the PINDETECT:SAVED line.                                               *)
(***************************************************************************)
SavePinHandled == s_mode = "idle" /\ IsSavePinLine(s_line')
SavedWritten == \E i \in DOMAIN s_out' : s_out'[i] = Reply("PINDETECT:SAVED")
PinOnDisk ==
    /\ LoadFile(fs', "/config.json").ok
    /\ HasKey(LoadFile(fs', "/config.json").val, s_line'[2].s)
    /\ LoadFile(fs', "/config.json").val.m[s_line'[2].s] = s_line'[3].v

C26_SavedThenReset ==
    [][SavePinHandled =>
          /\ SavedWritten => (PinOnDisk /\ ResetCalled)
          /\ ResetCalled => SavedWritten]_vars

(***************************************************************************)
(* C28: on END in Stream mode the acknowledgment is written before flush   *)
(* and close are attempted, and a failing flush or close causes no ERROR   *)
(* line.                                                                   *)
(***************************************************************************)
C28_AckBeforeClose ==
    [][(s_mode = "write_stream" /\ s_line' = EndLine /\ s_fx' # <<>>) =>
          /\ s_out' = <<Reply("File written (high-speed streaming)")>>
          /\ \A i \in DOMAIN s_fx' : s_fx'[i].after = 1
          /\ ~ErrorEmitted]_vars

\* close() raised after the acknowledgment
C28_Witness ==
    /\ s_line = EndLine
    /\ s_fx = <<Fx("flush", TRUE, 1), Fx("close", FALSE, 1)>>
    /\ s_out = <<Reply("File written (high-speed streaming)")>>

(***************************************************************************)
(* C27: READFILE framing.  The output of READFILE:<name>, read as lines,   *)
(* is START_<name>, then every line of the file verbatim and in order,     *)
(* then END_<name>; on a read failure it is START_<name>, an ERROR line    *)
(* and END_<name>.  END_<name> is a line of the output exactly once, and   *)
(* the mode stays Idle.                                                    *)
(***************************************************************************)
\* everything written after the ACK, as one text
RECURSIVE Written(_)
Written(out) ==
    IF out = <<>> THEN <<>>
    ELSE (IF Head(out).kind = "DATA" THEN Head(out).msg ELSE <<>>) \o Written(Tail(out))

\* a text as the lines the receiver sees, without their newlines
RECURSIVE AsLines(_)
AsLines(lines) ==
    IF lines = <<>> THEN <<>> ELSE <<StripNL(Head(lines))>> \o AsLines(Tail(lines))

ReadHandled == s_mode = "idle" /\ IsReadLine(s_line')
Received == AsLines(ReadLines(Written(s_out')))
ReadFailed == \E i \in DOMAIN Written(s_out') : Written(s_out')[i] = ErrorMark

C27_ReadFileFraming ==
    [][ReadHandled =>
          LET fname == s_line'[2].s
              path  == FileNameOf(s_line')
          IN /\ s_mode' = "idle"
             /\ ~ReadFailed =>
                   Received = <<<<StartMark(fname)>>>>
                                 \o AsLines(ReadLines(fs[path].text))
                                 \o <<<<EndMark(fname)>>>>
             /\ ReadFailed =>
                   Received = <<<<StartMark(fname)>>, <<ErrorMark>>, <<EndMark(fname)>>>>
             /\ Cardinality({i \in DOMAIN Received : Received[i] = <<EndMark(fname)>>}) = 1]_vars

(***************************************************************************)
(* C24: bounded work per call.  A call of handle_serial reads at most      *)
(* max_bytes = 8 bytes from serial, whatever the lines it dispatches do;   *)
(* bytes beyond that stay waiting until the main loop calls again.         *)
(***************************************************************************)
C24_BoundedWorkPerCall == r_taken <= MaxBytes

\* a call has returned after eight bytes, two lines among them, with more
\* bytes waiting
C24_Witness ==
    /\ r_pc = "loop"
    /\ r_taken = MaxBytes
    /\ r_waiting # <<>>
    /\ Len(r_lines) = 2

(***************************************************************************)
(* C31: no half-built file after a failed transfer.  When a WRITEFILE      *)
(* transfer ends in an error (an ERROR line is emitted for it, in          *)
(* Accumulate or Stream mode), the target file on disk holds its complete  *)
(* pre-transfer content, or is absent if it was absent.                    *)
(***************************************************************************)
C31_NoHalfBuiltFile ==
    [][(h_transfer.kind = "write" /\ s_mode \in {"write", "write_stream"} /\ ErrorEmitted) =>
          fs'[s_filename] = h_transfer.before]_vars

(***************************************************************************)
(* C37: stream mode always has a handle.  In every session state where the *)
(* mode is write_stream, the first element of file_lines is an open,       *)
(* writable file handle on the target path (a failed open at WRITEFILE:    *)
(* falls back to write mode), and the "Invalid stream handle" error is     *)
(* never emitted.                                                          *)
(***************************************************************************)
C37_StreamHasHandle ==
    /\ s_mode = "write_stream" =>
          /\ HasHandle(s_file_lines)
          /\ s_file_lines[1] = Handle(s_filename)
          /\ s_open >= 1
          /\ fs[s_filename].exists
    /\ \A i \in DOMAIN s_out : s_out[i] # Error("Invalid stream handle")

C37_Witness ==
    /\ s_mode = "write_stream"
    /\ s_file_lines = <<Handle("/code.py"), Count(1)>>
    /\ s_line = Dumps(DocA1)

(***************************************************************************)
(* C38: payload is never executed.  No line the host sends between a       *)
(* WRITEFILE: or IMPORTUSER command and its END, other than a PREVIEWLED:  *)
(* line, is dispatched as an Idle command, also when the transfer was      *)
(* aborted by an error and the host keeps sending the rest of the payload. *)
(* The Idle commands among the lines of the model are WRITEFILE: and       *)
(* IMPORTUSER.                                                             *)
(***************************************************************************)
IdleCommand(line) == IsWriteLine(line) \/ line = ImportLine

C38_PayloadNotExecuted ==
    [][(h_transfer.open /\ ~IsPreviewLine(s_line') /\ IdleCommand(s_line')) =>
          s_mode # "idle"]_vars

(***************************************************************************)
(* C40: the serial indicator is cleared with the session.  Whenever a      *)
(* WRITEFILE transfer ends and the session returns to Idle (by END, by a   *)
(* payload error or by the top-level exception handler), the indicator is  *)
(* inactive and the two strum LEDs, pixels 0 and 1, hold the colours they  *)
(* had when the transfer started.                                          *)
(***************************************************************************)
C40_IndicatorCleared ==
    [][(h_transfer.kind = "write" /\ s_mode \in {"write", "write_stream"} /\ s_mode' = "idle") =>
          /\ ~s_indicator'.active
          /\ s_leds'[0] = h_transfer.leds[1]
          /\ s_leds'[1] = h_transfer.leds[2]]_vars

(***************************************************************************)
(* C34: chunking independence of line assembly.  The lines dispatched and  *)
(* the content of the partial-line buffer are a function of the bytes read *)
(* so far, whatever the split of the bytes over handle_serial calls and    *)
(* however many bytes were waiting in each call; the bytes of a line not   *)
(* yet terminated stay in the buffer across calls.                         *)
(***************************************************************************)
\* the lines and the unfinished line of a byte sequence
RECURSIVE Assemble(_, _, _)
Assemble(bytes, buffer, lines) ==
    IF bytes = <<>> THEN [buffer |-> buffer, lines |-> lines]
    ELSE LET c == Head(bytes) IN
         IF c = BadByte THEN Assemble(Tail(bytes), buffer, lines)
         ELSE IF c = "\n" THEN Assemble(Tail(bytes), <<>>, Append(lines, RStrip(buffer)))
         ELSE Assemble(Tail(bytes), Append(buffer, c), lines)

BytesRead == SubSeq(h_stream, 1, Len(h_stream) - Len(r_waiting))

C34_ChunkingIndependence ==
    /\ h_stream = BytesRead \o r_waiting
    /\ r_lines = Assemble(BytesRead, <<>>, <<>>).lines
    /\ r_buffer = Assemble(BytesRead, <<>>, <<>>).buffer

\* a call has returned in the middle of a line, after dispatching another
C34_Witness ==
    /\ r_pc = "loop"
    /\ r_buffer = <<"o", "E", "N", "D", "\r">>
    /\ r_lines = <<<<"o", "k">>>>
    /\ r_waiting = <<"\n">>

(***************************************************************************)
(* C32: per-file isolation in the boot-time batch.  A staged file is       *)
(* deleted from /updates if and only if its own apply succeeded, right     *)
(* after that apply and before the next file is processed; a failure is    *)
(* recorded in failed_files and the files after it are still attempted.    *)
(* Stated over the file loop of one boot: the files before the loop index  *)
(* are either failed and still staged or applied and deleted, the files    *)
(* from the loop index on are staged and untouched, and success_count      *)
(* counts the applied ones.                                                *)
(***************************************************************************)
InBatch == b_pc \in {"apply", "copy_write", "unstage", "p_rmdir", "p_retry_rm", "p_flag_rm", "p_reset"}

C32_PerFileIsolation ==
    InBatch =>
       /\ \A k \in 1..Len(b_files) :
             LET f == b_files[k] IN
             /\ k < b_i => /\ f \in b_failed <=> f \in b_staged
                           /\ f \notin b_failed => b_target[f] = "new"
             /\ k >= b_i => f \in b_staged /\ f \notin b_failed
             /\ (k = b_i /\ b_pc = "unstage") => b_target[f] = "new"
       /\ b_success = Cardinality({k \in 1..Len(b_files) : k < b_i /\ b_files[k] \notin b_failed})
       /\ b_pc \notin {"apply", "copy_write", "unstage"} => b_i = Len(b_files) + 1

\* the first file failed, the second was applied and deleted, the third is
\* about to be attempted
C32_Witness ==
    /\ b_pc = "apply" /\ b_i = 3
    /\ b_files = <<"config.json", "code.py", "utils.py">>
    /\ b_failed = {"config.json"}
    /\ b_staged = {"config.json", "utils.py"}
    /\ b_target["code.py"] = "new"

(***************************************************************************)
(* C33: retry counter bound.  After any sequence of boots the number in    *)
(* /update_retry_count.txt is never greater than 3.  A boot whose          *)
(* incremented count exceeds 3 persists nothing and applies no file, and   *)
(* when it has run the counter, the staged files and the staging directory *)
(* are gone.                                                               *)
(***************************************************************************)
GivingUp == b_pc \in {"cap_files", "cap_retry"}
GaveUp == b_pc = "done" /\ b_count > MaxRetries

C33_RetryBound ==
    /\ [](b_retry <= MaxRetries)
    /\ [](b_count > MaxRetries => (GivingUp \/ GaveUp) /\ b_success = 0)
    /\ [](GaveUp => b_retry = 0 /\ b_staged = {} /\ ~b_dir)
    /\ [][GivingUp => /\ b_target' = b_target
                      /\ b_flag' = b_flag
                      /\ b_retry' \in {b_retry, 0}
                      /\ b_pc' \in {"cap_files", "cap_retry", "done", "start"}]_vars

C33_Witness ==
    GaveUp /\ Len(b_files) > 0

(***************************************************************************)
(* C39: total failure is attempted exactly once.  When the apply phase of  *)
(* a boot ends with no file applied, the in-progress flag and the staging  *)
(* directory with its files stay in place and the device does not reset;   *)
(* the next boot finds the flag, takes the recovery path and deletes the   *)
(* staged files without applying any.  The flag survives the end of an     *)
(* apply phase if and only if no file succeeded.                           *)
(***************************************************************************)
\* boot.py has ended after an apply phase in which nothing succeeded
TotalFailure == b_pc = "done" /\ ~b_recovered /\ b_files # <<>> /\ b_count <= MaxRetries
Recovering == b_pc \in {"rec_flag", "rec_retry", "rec_files"}

StagedMalformed == ~LoadFile(fs, UpdatePath(m_target)).ok
MergeCalled == m_count' = m_count + 1

C36_MalformedUpdateRejected ==
    [][(MergeCalled /\ StagedMalformed) => m_ret' = "false" /\ fs' = fs]_vars

\* a call on a malformed staged file over a target holding settings
C36_Witness ==
    /\ m_count = 1 /\ m_ret = "false"
    /\ fs[UpdatePath(m_target)] = Truncated
    /\ LoadFile(fs, m_target).ok /\ Truthy(LoadFile(fs, m_target).val)
    /\ ~fs[BackupPath(m_target)].exists /\ ~fs[TmpPath(m_target)].exists

(***************************************************************************)
(* C35: update-log rotation.  Starting with no update logs, after any      *)
(* number of boots there are never more than 12 /update_log_NNN.txt files, *)
(* and a boot that runs the update processor when 12 logs exist deletes    *)
(* the lowest-numbered one and creates the log numbered one above the      *)
(* highest existing number.                                                *)
(***************************************************************************)
C35_LogRotation ==
    /\ [](Cardinality(l_logs) <= KeepLogs)
    /\ [][(l_boots' = l_boots + 1 /\ Cardinality(l_logs) = KeepLogs) =>
             l_logs' = (l_logs \ {MinOf(l_logs)}) \cup {MaxOf(l_logs) + 1}]_vars

====
